---- MODULE Spec2Model ----
(***************************************************************************)
(* Offline-first sync engine of reading_tracker_web: the outbox            *)
(* (sync_queue), the memo table (offline_memos), the foreground memo       *)
(* driver (OfflineMemoService.syncPendingMemos), the background sync       *)
(* worker (service worker syncPendingMemos), the user operations of the    *)
(* offline memo service, the backoff timers of SyncQueueManager and the    *)
(* remote memo API at its boundary.                                        *)
(*                                                                         *)
(* Every "await" of the source is a point where another task may run; an   *)
(* action of this module is the code between two such points (a single     *)
(* IndexedDB transaction is atomic).  Objects read from the store are      *)
(* copies: a task keeps working on its copy and later writes the whole     *)
(* copy back with put().                                                   *)
(*                                                                         *)
(* Not modelled: the fields updatedAt, lastRetryAt and error of an outbox  *)
(* item (no code path reads them), the memo's text fields other than       *)
(* memoStartTime, the sync state coordinator and the request gate.         *)
(***************************************************************************)
EXTENDS Integers, Sequences, FiniteSets, TLC

\* ---------------------------------------------------------------- bounds
\* number of memos the user may create (localIds 1..MaxMemos)
MaxMemos == 1
\* the same, where the background sync worker replays alone
SwMemos == 2
\* number of outbox items ever enqueued (ids 1..MaxItems)
MaxItems == 3
\* number of network faults: a connection drop, or a remote call that fails
\* while the client is online
MaxFail == 1
\* the same, where one operation is retried by the foreground alone
RetryFail == 3
\* number of foreground passes that may start
MaxFgPasses == 3
\* number of outbox items where a memo is edited again and again
CoalesceItems == 4
\* number of different contents an edit may carry
MaxContent == 2
\* number of sync:start events in a run with calls of checkAndStartSync
MaxStarts == 3
MaxCalls == 3
GateMemos == 3
GateCalls == 2
\* number of outbox items where a delete waits behind an edit that is retried
WaitItems == 4
MaxInvoked == 2
\* number of shelf rows ever stored (localIds 1..MaxBooks)
MaxBooks == 2
\* number of shelf entries the server may hand to the cache
MaxServerBooks == 1
\* number of background passes that may start
MaxSwPasses == 1

\* ------------------------------------------------------- program constants
maxRetries == 3
RetentionDays == 7
\* number of concurrently running foreground passes (tasks of one event loop)
NumFg == 2

Null == 0
\* a memoStartTime more than 7 days before the first instant of the wall clock
OldTime == 1
StartTime == OldTime + RetentionDays + 1

FgIds == 1..NumFg
MemoIds == 1..SwMemos
ItemIds == 1..MaxItems
BookIds == 1..MaxBooks
Contents == 1..MaxContent
ServerBookIds == 1..MaxServerBooks
CallIds == 1..MaxCalls

VARIABLES
    queue,      \* sync_queue: item id -> outbox item
    memos,      \* offline_memos: localId -> memo row
    nextItem,   \* ids handed out by generateId so far
    nextMemo,   \* localIds handed out by generateLocalId so far
    now,        \* wall clock (advances with every enqueue)
    online,     \* networkMonitor.isOnline / server reachable
    rows,       \* server: memo rows, id -> [key, memo]
    keyIds,     \* server: Idempotency-Key -> id answered for it
    nextRow,    \* server: ids assigned so far
    sent,       \* every request that reached the server (history)
    fails,      \* network faults so far
    user,       \* the user operation in progress (a copy of the memo it read)
    fg,         \* the foreground passes
    fgStarted,  \* foreground passes started so far
    sw,         \* the background pass
    swStarted,  \* background passes started so far
    timers,     \* armed backoff timers: the item copies handed to retrySync
    deleted,    \* (history) localIds whose deleteMemo call has returned
    cancelled,  \* (history) localIds deleted by the local-only branch of deleteMemo
    books,      \* offline_books: localId -> shelf row
    nextBook,   \* shelf localIds handed out so far
    shelf,      \* the shelf operation in progress (a copy of the row it read)
    bk,         \* the pass of the shelf driver
    lastUpdate, \* (history) the memo of the last updateMemo call, when no
                \* pass was under way then and none has started since
    coord,      \* SyncStateManager: isSyncing, syncStartTime, totalProcessedCount
    published,  \* event bus: how many sync:start and sync:complete were published
    api,        \* calls of checkAndStartSync and waitForSyncComplete under way
    gate,       \* RequestQueueManager: queue, isProcessing
    calls,      \* the calls of the facade's createMemo, by number, in call order
    db,         \* dbManager.db: open after init(); error (history): a store
                \* operation was called while it was null
    net         \* networkMonitor's probe and NetworkStateManager; emitted
                \* (history): the network events of the last step; last
                \* (history): the last transition published; invoked: the
                \* calls of syncPendingMemos made and not yet begun

vars == <<queue, memos, nextItem, nextMemo, now, online, rows, keyIds, nextRow,
          sent, fails, user, fg, fgStarted, sw, swStarted, timers, deleted, cancelled,
          books, nextBook, shelf, bk, lastUpdate, coord, published, api, gate, calls, db, net>>
shelfVars == <<books, nextBook, shelf, bk>>
gateVars == <<gate, calls>>
coordOnly == <<coord, published, api, gateVars>>
coordVars == <<coordOnly, db, net>>

\* ------------------------------------------------------------- store helpers
\* store.put(x) under key k
Put(f, k, x) == [i \in DOMAIN f \cup {k} |-> IF i = k THEN x ELSE f[i]]
\* store.delete(k)
Del(f, k) == [i \in DOMAIN f \ {k} |-> f[i]]
\* store.get(k), null when absent
Has(f, k) == k \in DOMAIN f

NoMemo == [localId |-> Null, serverId |-> Null, syncStatus |-> "none",
           syncQueueId |-> Null, memoStartTime |-> Null, content |-> Null]
NoItem == [id |-> Null, type |-> "none", localMemoId |-> Null, serverMemoId |-> Null,
           data |-> [memo |-> Null, mst |-> Null, content |-> Null], status |-> "none",
           originalQueueId |-> Null, idempotencyKey |-> Null, retryCount |-> 0,
           createdAt |-> Null]

getMemoByLocalId(localId) == IF Has(memos, localId) THEN memos[localId] ELSE NoMemo
getQueueItem(queueId) == IF Has(queue, queueId) THEN queue[queueId] ELSE NoItem

\* index.getAll(status): the items of that status in primary-key order
RECURSIVE SeqOfIds(_, _)
SeqOfIds(q, ids) ==
    IF ids = {} THEN <<>>
    ELSE LET m == CHOOSE i \in ids : \A j \in ids : i <= j
         IN <<q[m]>> \o SeqOfIds(q, ids \ {m})
getByStatus(q, st) == SeqOfIds(q, {i \in DOMAIN q : q[i].status = st})
getPendingItems(q) == getByStatus(q, "PENDING")
getWaitingItems(q) == getByStatus(q, "WAITING")
getQueueItemsByLocalMemoId(q, localId) ==
    SeqOfIds(q, {i \in DOMAIN q : q[i].localMemoId = localId})

\* Array.prototype.sort((a, b) => key(a) - key(b)) on a sequence of <<key, item>>
\* pairs: stable, an element goes after the elements whose key is not greater
RECURSIVE Insert(_, _)
Insert(s, x) ==
    IF s = <<>> THEN <<x>>
    ELSE IF Head(s)[1] <= x[1] THEN <<Head(s)>> \o Insert(Tail(s), x)
         ELSE <<x>> \o s
RECURSIVE SortPairs(_)
SortPairs(s) ==
    IF s = <<>> THEN <<>>
    ELSE Insert(SortPairs(SubSeq(s, 1, Len(s) - 1)), s[Len(s)])
Items(pairs) == [i \in 1..Len(pairs) |-> pairs[i][2]]

\* --------------------------------------------------------- SyncQueueManager
\* enqueue(item): a fresh id, the copied fields, retryCount 0, createdAt now
enqueue(q, id, item, t) ==
    Put(q, id, [id |-> id, type |-> item.type, localMemoId |-> item.localMemoId,
                serverMemoId |-> item.serverMemoId, data |-> item.data,
                status |-> IF item.status = "none" THEN "PENDING" ELSE item.status,
                originalQueueId |-> item.originalQueueId,
                idempotencyKey |-> item.idempotencyKey,
                retryCount |-> 0, createdAt |-> t])

removeQueueItem(q, queueId) == Del(q, queueId)

updateQueueItem(q, item) == Put(q, item.id, item)

markAsSuccess(q, queueId) ==
    IF Has(q, queueId) THEN [q EXCEPT ![queueId].status = "SUCCESS"] ELSE q

\* updateStatus without a check of the stored status
TryUpdateStatusUnchecked(q, queueId, expectedStatus, newStatus) ==
    [ok |-> Has(q, queueId),
     queue |-> IF Has(q, queueId) THEN [q EXCEPT ![queueId].status = newStatus] ELSE q]

\* tryUpdateStatus(queueId, expected, new): one readwrite transaction
tryUpdateStatus(q, queueId, expectedStatus, newStatus) ==
    IF Has(q, queueId) /\ q[queueId].status = expectedStatus
    THEN [ok |-> TRUE, queue |-> [q EXCEPT ![queueId].status = newStatus]]
    ELSE [ok |-> FALSE, queue |-> q]

\* markAsFailed: FAILED, retryCount + 1; the stored copy is what the timer gets
FailedCopy(item) == [item EXCEPT !.status = "FAILED", !.retryCount = item.retryCount + 1]
markAsFailed(q, queueId) ==
    IF Has(q, queueId) THEN [q EXCEPT ![queueId] = FailedCopy(q[queueId])] ELSE q
ArmsTimer(q, queueId) == Has(q, queueId) /\ q[queueId].retryCount + 1 < maxRetries

\* ------------------------------------------------------------- remote API
\* a request as the server sees it; target is the id in the URL, key the
\* Idempotency-Key header, memo the payload's owner, body its content, by the
\* driver that sent it
Request(method, target, key, data, by) ==
    [method |-> method, target |-> target, key |-> key, memo |-> data.memo,
     body |-> data.content, by |-> by]

\* POST /memos: a key already answered gives the same id and no new row
PostAnswer(key) == IF key # Null /\ Has(keyIds, key) THEN keyIds[key] ELSE nextRow + 1
ServerPost(key, memo) ==
    IF key # Null /\ Has(keyIds, key)
    THEN UNCHANGED <<rows, keyIds, nextRow>>
    ELSE /\ rows' = Put(rows, nextRow + 1, [key |-> key, memo |-> memo])
         /\ keyIds' = IF key # Null THEN Put(keyIds, key, nextRow + 1) ELSE keyIds
         /\ nextRow' = nextRow + 1
\* PUT /memos/{id}: 2xx when the row exists
ServerPutOk(target) == Has(rows, target)
\* DELETE /memos/{id}: 2xx when the row exists, and the row is removed
ServerDeleteOk(target) == Has(rows, target)
ServerDelete(target) ==
    /\ rows' = IF Has(rows, target) THEN Del(rows, target) ELSE rows
    /\ UNCHANGED <<keyIds, nextRow>>
ServerUnchanged == UNCHANGED <<rows, keyIds, nextRow>>

\* ------------------------------------------------------------------- Init
\* inFlight (history): the CREATE or UPDATE item of the memo that was SYNCING
\* when deleteMemo read the row
IdleUser == [op |-> "idle", localMemo |-> NoMemo, inFlight |-> Null]
\* lost (history): the item whose tryUpdateStatus just answered false
IdleFg == [pc |-> "idle", waiting |-> <<>>, pending |-> <<>>, item |-> NoItem,
           localMemo |-> NoMemo, related |-> <<>>, resp |-> Null, lost |-> Null]
NoBook == [localId |-> Null, serverId |-> Null, syncStatus |-> "none", syncQueueId |-> Null,
           category |-> Null, rating |-> Null]
\* an updateData that leaves every field undefined
NoUpdate == [category |-> Null, rating |-> Null]
IdleShelf == [op |-> "idle", localBook |-> NoBook, updateData |-> NoUpdate]
IdleBk == [pc |-> "idle", pending |-> <<>>]
\* networkMonitor and NetworkStateManager as their constructors leave them
InitNet(isOnline) ==
    [isLocalServerReachable |-> FALSE, isExternalServiceReachable |-> FALSE,
     probe |-> "idle",
     manager |-> [isOnline |-> isOnline,
                  state |-> IF isOnline THEN "online" ELSE "offline"],
     emitted |-> <<>>, last |-> "none", invoked |-> 0]
\* dbManager as its constructor leaves it: db is null
ClosedDb == [open |-> FALSE, error |-> FALSE]
\* await this.init(): dbManager.init() opens the database
init(d) == [d EXCEPT !.open = TRUE]
\* RequestQueueManager as its constructor leaves it
IdleGate == [queue |-> <<>>, isProcessing |-> FALSE]
\* no error thrown
NoError == [status |-> Null, message |-> "none"]
\* a call of the facade not made yet; gated: it was handed to the Gate;
\* error: what apiClient threw; rejection: what the caller's promise got;
\* cycle (history): the number of sync:start published when it was made
NoCall == [state |-> "none", gated |-> FALSE, mst |-> Null, resp |-> Null,
           error |-> NoError, rejection |-> NoError, cycle |-> 0]
\* the coordinator as its constructor leaves it, and after setSyncComplete
IdleCoord == [isSyncing |-> FALSE, syncStartTime |-> Null, totalProcessedCount |-> 0]
IdleSw == [pc |-> "idle", waiting |-> <<>>, pending |-> <<>>, item |-> NoItem,
           ok |-> FALSE]

Init ==
    /\ queue = <<>>
    /\ memos = <<>>
    /\ nextItem = 0
    /\ nextMemo = 0
    /\ now = StartTime
    /\ online \in BOOLEAN
    /\ rows = <<>>
    /\ keyIds = <<>>
    /\ nextRow = 0
    /\ sent = {}
    /\ fails = 0
    /\ user = IdleUser
    /\ fg = [p \in FgIds |-> IdleFg]
    /\ fgStarted = 0
    /\ sw = IdleSw
    /\ swStarted = 0
    /\ timers = {}
    /\ deleted = {}
    /\ cancelled = {}
    /\ books = <<>>
    /\ nextBook = 0
    /\ shelf = IdleShelf
    /\ bk = IdleBk
    /\ lastUpdate = Null
    /\ coord = IdleCoord
    /\ published = [start |-> 0, complete |-> 0]
    /\ api = [starter |-> "idle", waiter |-> "idle", result |-> "none", elapsed |-> FALSE]
    /\ gate = IdleGate
    /\ calls = [c \in CallIds |-> NoCall]
    /\ db = ClosedDb
    /\ net = InitNet(online)

serverVars == <<rows, keyIds, nextRow, sent, fails>>
passVars == <<fg, fgStarted, sw, swStarted>>

\* ------------------------------------------------------------ network state
\* browser online/offline events as seen by networkMonitor
GoOnline == /\ ~online
            /\ online' = TRUE
            /\ UNCHANGED <<shelfVars, coordVars, lastUpdate, deleted, cancelled, queue, memos, nextItem, nextMemo, now, serverVars, user,
                           passVars, timers>>
GoOffline == /\ online
             /\ fails < MaxFail
             /\ fails' = fails + 1
             /\ online' = FALSE
             /\ UNCHANGED <<shelfVars, coordVars, lastUpdate, deleted, cancelled, queue, memos, nextItem, nextMemo, now, rows, keyIds,
                            nextRow, sent, user, passVars, timers>>

\* ---------------------------------------------------- OfflineMemoService (user)
\* the memoStartTime the caller may pass to createMemo: none, or an old date
MemoStartTimes == {Null, OldTime}

\* createMemo(memoData): row saved as pending, CREATE enqueued with a fresh
\* Idempotency-Key (a UUID of its own; the number of the localId stands for it)
createMemoWrites(mst) ==
    LET localId == nextMemo + 1
        id == nextItem + 1
        item == [NoItem EXCEPT !.type = "CREATE", !.localMemoId = localId,
                               !.data = [memo |-> localId, mst |-> mst, content |-> Null],
                               !.idempotencyKey = localId]
    IN /\ queue' = enqueue(queue, id, item, now)
       /\ memos' = Put(memos, localId,
                       [localId |-> localId, serverId |-> Null,
                        syncStatus |-> "pending", syncQueueId |-> id,
                        memoStartTime |-> IF mst = Null THEN now ELSE mst,
                        content |-> Null])
       /\ nextItem' = id
       /\ nextMemo' = localId
       /\ now' = now + 1

createMemo(mst, maxMemos) ==
    /\ user.op = "idle"
    /\ nextMemo < maxMemos
    /\ nextItem < MaxItems
    /\ createMemoWrites(mst)
    /\ db' = init(db) /\ net' = net
    /\ UNCHANGED <<shelfVars, coordOnly, lastUpdate, deleted, cancelled, online, serverVars, user, passVars, timers>>

\* no sync pass is under way
NoPassRuns == (\A p \in FgIds : fg[p].pc = "idle") /\ sw.pc = "idle"

\* updateMemo, up to the first write: the row is read and the copy edited
\* updateData.content is content, Null when the caller leaves it undefined
updateMemoReadWith(m, content, maxItems) ==
    /\ user.op = "idle"
    /\ Has(memos, m)
    /\ nextItem < maxItems
    /\ ~(memos[m].serverId = Null /\ memos[m].syncStatus # "syncing_create")
    /\ user' = [op |-> "update",
                localMemo |-> [memos[m] EXCEPT
                                 !.content = IF content # Null THEN content ELSE @,
                                 !.syncStatus =
                                   IF memos[m].serverId # Null THEN "pending"
                                   ELSE "syncing_create"],
                inFlight |-> Null]
    /\ db' = init(db) /\ net' = net
    /\ UNCHANGED <<shelfVars, coordOnly, lastUpdate, deleted, cancelled, queue, memos, nextItem, nextMemo, now, online, serverVars,
                   passVars, timers>>

updateMemoRead(m) == updateMemoReadWith(m, Null, MaxItems)

\* updateMemo, the writes: the item named by syncQueueId is removed, an UPDATE
\* is enqueued with the copy's serverId, and the copy is saved
updateMemoWriteUpTo(maxItems) ==
    /\ user.op = "update"
    /\ nextItem < maxItems
    /\ LET lm == user.localMemo
           id == nextItem + 1
           q1 == IF lm.syncQueueId # Null THEN removeQueueItem(queue, lm.syncQueueId)
                 ELSE queue
           item == [NoItem EXCEPT !.type = "UPDATE", !.localMemoId = lm.localId,
                                  !.serverMemoId = lm.serverId,
                                  !.data = [memo |-> lm.localId,
                                            mst |-> lm.memoStartTime,
                                            content |-> lm.content]]
       IN /\ queue' = enqueue(q1, id, item, now)
          /\ memos' = Put(memos, lm.localId, [lm EXCEPT !.syncQueueId = id])
          /\ nextItem' = id
          /\ now' = now + 1
          /\ lastUpdate' = IF NoPassRuns THEN lm.localId ELSE Null
    /\ user' = IdleUser
    /\ UNCHANGED <<shelfVars, coordVars, deleted, cancelled, nextMemo, online, serverVars, passVars, timers>>

updateMemoWrite == updateMemoWriteUpTo(MaxItems)

\* the CREATE or UPDATE item of memo m that a pass holds claimed, Null if none
SyncingItemOf(q, m) ==
    LET ids == {i \in DOMAIN q : /\ q[i].localMemoId = m
                                 /\ q[i].type \in {"CREATE", "UPDATE"}
                                 /\ q[i].status = "SYNCING"}
    IN IF ids = {} THEN Null ELSE CHOOSE i \in ids : \A j \in ids : j <= i

\* deleteMemo, the read
deleteMemoRead(m) ==
    /\ user.op = "idle"
    /\ Has(memos, m)
    /\ user' = [op |-> "delete", localMemo |-> memos[m],
                inFlight |-> SyncingItemOf(queue, m)]
    /\ db' = init(db) /\ net' = net
    /\ UNCHANGED <<shelfVars, coordOnly, lastUpdate, deleted, cancelled, queue, memos, nextItem, nextMemo, now, online, serverVars,
                   passVars, timers>>

\* deleteMemo, no serverId: the row and the item named by syncQueueId go at once
deleteMemoLocalOnly ==
    /\ user.op = "delete"
    /\ user.localMemo.serverId = Null
    /\ memos' = Del(memos, user.localMemo.localId)
    /\ queue' = IF user.localMemo.syncQueueId # Null
                THEN removeQueueItem(queue, user.localMemo.syncQueueId) ELSE queue
    /\ user' = IdleUser
    /\ deleted' = deleted \cup {user.localMemo.localId}
    /\ cancelled' = cancelled \cup {user.localMemo.localId}
    /\ UNCHANGED <<shelfVars, coordVars, lastUpdate, nextItem, nextMemo, now, online, serverVars, passVars, timers>>

\* deleteMemo of a row with a serverId: a DELETE item, WAITING behind the item
\* named by syncQueueId when the copy says syncing / syncing_update
deleteMemoWaits(lm) == lm.syncStatus \in {"syncing", "syncing_update"}
deleteMemoEnqueueUpTo(maxItems) ==
    /\ user.op = "delete"
    /\ user.localMemo.serverId # Null
    /\ nextItem < maxItems
    /\ LET lm == user.localMemo
           id == nextItem + 1
           wait == deleteMemoWaits(lm)
           item == [NoItem EXCEPT !.type = "DELETE", !.localMemoId = lm.localId,
                                  !.serverMemoId = lm.serverId,
                                  !.status = IF wait THEN "WAITING" ELSE "none",
                                  !.originalQueueId =
                                      IF wait THEN lm.syncQueueId ELSE Null]
       IN /\ queue' = enqueue(queue, id, item, now)
          /\ memos' = Put(memos, lm.localId,
                          [lm EXCEPT !.syncStatus = IF wait THEN "waiting" ELSE "pending",
                                     !.syncQueueId = id])
          /\ nextItem' = id
          /\ now' = now + 1
    /\ user' = IdleUser
    /\ deleted' = deleted \cup {user.localMemo.localId}
    /\ UNCHANGED <<shelfVars, coordVars, lastUpdate, cancelled, nextMemo, online, serverVars, passVars, timers>>

deleteMemoEnqueue == deleteMemoEnqueueUpTo(MaxItems)

\* ------------------------------------------------------- SyncStateManager
\* startSync(pendingCount): the cycle is begun whatever the state; the clock
\* reading of the call is the number of the call
startSync(c, pub) ==
    [coord |-> [isSyncing |-> TRUE, syncStartTime |-> pub.start + 1,
                totalProcessedCount |-> 0],
     published |-> [pub EXCEPT !.start = @ + 1]]

\* updateSyncProgress(additionalProcessedCount, remainingCount)
updateSyncProgress(c, additionalProcessedCount) ==
    [c EXCEPT !.totalProcessedCount = @ + additionalProcessedCount]

\* the reset and the event, whether a cycle is active or not
SetSyncCompleteUnguarded(c, pub) ==
    [coord |-> IdleCoord, published |-> [pub EXCEPT !.complete = @ + 1]]

\* setSyncComplete(): nothing when no cycle is active
setSyncComplete(c, pub) ==
    IF ~c.isSyncing THEN [coord |-> c, published |-> pub]
    ELSE [coord |-> IdleCoord, published |-> [pub EXCEPT !.complete = @ + 1]]

\* the second half of checkSyncComplete, after getPendingItems has answered
checkSyncComplete(c, pub, q) ==
    IF getPendingItems(q) = <<>> THEN setSyncComplete(c, pub)
    ELSE [coord |-> c, published |-> pub]

\* the subscriber that waitForSyncComplete registers for sync:complete: it
\* settles the promise with true; a settled promise stays as it is
onSyncComplete(a) ==
    IF a.waiter # "idle" /\ a.result = "none" THEN [a EXCEPT !.result = "true"] ELSE a

\* eventBus.publish('sync:complete'): the subscribers run before publish returns
publish(a, before, after) ==
    IF after.complete > before.complete THEN onSyncComplete(a) ELSE a

\* ------------------------------------------------------ RequestQueueManager
\* the request run server-first whatever networkMonitor says
RunRequestServerFirst(cs, c, isOnline) == [cs EXCEPT ![c].state = "server"]

\* the facade's createMemo run by the Gate: no cycle is active then, so it
\* goes server-first when networkMonitor says online, else store-first
runRequest(cs, c, isOnline) ==
    [cs EXCEPT ![c].state = IF isOnline THEN "server" ELSE "local"]

\* the loop without its look at isSyncing
ProcessLoopUnchecked(g, cs, isSyncing, isOnline) ==
    IF g.queue = <<>>
    THEN [gate |-> [g EXCEPT !.isProcessing = FALSE], calls |-> cs]
    ELSE [gate |-> [g EXCEPT !.queue = Tail(@)],
          calls |-> runRequest(cs, Head(g.queue), isOnline)]

\* the loop of processQueue from its head: the next item is shifted and run
\* unless the queue is empty or a cycle is active, and then isProcessing is
\* reset; the loop goes on when the request that was run has settled
processLoop(g, cs, isSyncing, isOnline) ==
    IF g.queue = <<>> \/ isSyncing
    THEN [gate |-> [g EXCEPT !.isProcessing = FALSE], calls |-> cs]
    ELSE [gate |-> [g EXCEPT !.queue = Tail(@)],
          calls |-> runRequest(cs, Head(g.queue), isOnline)]

\* processQueue(): nothing while a drain runs, the queue is empty or a cycle
\* is active
processQueue(g, cs, isSyncing, isOnline) ==
    IF g.isProcessing \/ g.queue = <<>> \/ isSyncing THEN [gate |-> g, calls |-> cs]
    ELSE processLoop([g EXCEPT !.isProcessing = TRUE], cs, isSyncing, isOnline)

\* enqueue(requestFn): the item goes to the tail; processQueue is called
\* when no cycle is active and no drain runs
requestEnqueue(g, cs, c, isSyncing, isOnline) ==
    LET g2 == [g EXCEPT !.queue = Append(@, c)]
        cs2 == [cs EXCEPT ![c].state = "queued", ![c].gated = TRUE]
    IN IF ~isSyncing /\ ~g.isProcessing THEN processQueue(g2, cs2, isSyncing, isOnline)
       ELSE [gate |-> g2, calls |-> cs2]

\* the error of clear()
Cancellation == [status |-> Null, message |-> "cleared"]

RECURSIVE rejectAll(_, _)
rejectAll(cs, q) ==
    IF q = <<>> THEN cs
    ELSE rejectAll([cs EXCEPT ![Head(q)].state = "rejected",
                              ![Head(q)].rejection = Cancellation], Tail(q))

\* the queue is emptied and no promise is rejected
ClearWithoutReject(g, cs) ==
    [gate |-> [queue |-> <<>>, isProcessing |-> FALSE], calls |-> cs]

\* clear(): every queued item is shifted and rejected, isProcessing is reset
clear(g, cs) ==
    [gate |-> [queue |-> <<>>, isProcessing |-> FALSE], calls |-> rejectAll(cs, g.queue)]

\* a call of the facade settles; when the Gate had run it, the drain that
\* awaited it settles the caller's promise and goes on with its loop
settle(g, cs, c, state, rejection, isSyncing, isOnline) ==
    LET cs2 == [cs EXCEPT ![c].state = state, ![c].rejection = rejection]
    IN IF cs[c].gated THEN processLoop(g, cs2, isSyncing, isOnline)
       ELSE [gate |-> g, calls |-> cs2]

\* the Gate's subscriber of sync:complete calls processQueue
GateFollows(before, r, isOnline) ==
    LET d == IF r.published.complete > before.complete
             THEN processQueue(gate, calls, r.coord.isSyncing, isOnline)
             ELSE [gate |-> gate, calls |-> calls]
    IN gate' = d.gate /\ calls' = d.calls

\* what a driver does with the coordinator in one step, when it is followed
Followed(track, r) ==
    IF track THEN /\ coord' = r.coord
                  /\ published' = r.published
                  /\ api' = publish(api, published, r.published)
                  /\ GateFollows(published, r, online)
                  /\ db' = db /\ net' = net
    ELSE UNCHANGED coordVars
Same == [coord |-> coord, published |-> published]
Progress == [coord |-> updateSyncProgress(coord, 1), published |-> published]
\* the driver's call: startSync when something is PENDING and no cycle is active
StartIfIdle(q) ==
    IF getPendingItems(q) # <<>> /\ ~coord.isSyncing THEN startSync(coord, published)
    ELSE Same

\* ------------------------------------- OfflineMemoService.syncPendingMemos
clientVars == <<nextMemo, user, deleted, cancelled, shelfVars, lastUpdate>>
userVars == <<clientVars, coordVars>>
SetFg(p, r) == fg' = [fg EXCEPT ![p] = r]

\* the copy is written back as PENDING whatever the state of the item it names
PromoteUnguarded(q, waitingItem) ==
    updateQueueItem(q, [waitingItem EXCEPT !.status = "PENDING"])

\* the WAITING item is made PENDING when the item it names is SUCCESS; the
\* whole copy read by getWaitingItems is written back
promoteWaiting(q, waitingItem) ==
    IF /\ waitingItem.originalQueueId # Null
       /\ Has(q, waitingItem.originalQueueId)
       /\ q[waitingItem.originalQueueId].status = "SUCCESS"
    THEN updateQueueItem(q, [waitingItem EXCEPT !.status = "PENDING"])
    ELSE q

\* pendingMemoItems: the PENDING items with a localMemoId, sorted by createdAt
CreatedAtPairs(s) == [i \in 1..Len(s) |-> <<s[i].createdAt, s[i]>>]
IsMemoItem(item) == item.localMemoId # Null
pendingMemoItems(q) ==
    Items(SortPairs(CreatedAtPairs(SelectSeq(getPendingItems(q), IsMemoItem))))

\* a pass starts (network:online handler, or the call at the end of a user
\* operation) and reads the WAITING items; offline it returns at once.
\* invoked: the pass is one of the calls the network handlers have made
FgStartWith(p, invoked) ==
    /\ fg[p].pc = "idle"
    /\ online
    /\ db.open
    /\ fgStarted < MaxFgPasses
    /\ fgStarted' = fgStarted + 1
    /\ SetFg(p, [IdleFg EXCEPT !.pc = "promote", !.waiting = getWaitingItems(queue)])
    /\ lastUpdate' = Null
    /\ IF invoked
       THEN /\ net.invoked > 0
            /\ net' = [net EXCEPT !.invoked = @ - 1, !.emitted = <<>>]
            /\ UNCHANGED <<coordOnly, db>>
       ELSE UNCHANGED coordVars
    /\ UNCHANGED <<queue, memos, nextItem, now, online, serverVars, nextMemo, user,
                   deleted, cancelled, shelfVars, sw, swStarted, timers>>

\* a pass, whoever called syncPendingMemos
FgStart(p) == FgStartWith(p, FALSE)

FgPromote(p) ==
    /\ fg[p].pc = "promote"
    /\ fg[p].waiting # <<>>
    /\ queue' = promoteWaiting(queue, Head(fg[p].waiting))
    /\ SetFg(p, [fg[p] EXCEPT !.waiting = Tail(fg[p].waiting)])
    /\ UNCHANGED <<memos, nextItem, now, online, serverVars, userVars, fgStarted,
                   sw, swStarted, timers>>

FgGetPendingWith(p, track) ==
    /\ fg[p].pc = "promote"
    /\ fg[p].waiting = <<>>
    /\ SetFg(p, [fg[p] EXCEPT !.pc = "claim", !.pending = pendingMemoItems(queue)])
    /\ Followed(track, StartIfIdle(queue))
    /\ UNCHANGED <<queue, memos, nextItem, now, online, serverVars, clientVars,
                   fgStarted, sw, swStarted, timers>>

FgGetPending(p) == FgGetPendingWith(p, FALSE)

\* one turn of the loop: the next item of the pass is claimed with
\* tryUpdateStatus(PENDING -> SYNCING), or skipped
FgClaim(p) ==
    /\ fg[p].pc = "claim"
    /\ fg[p].pending # <<>>
    /\ LET queueItem == Head(fg[p].pending)
           r == tryUpdateStatus(queue, queueItem.id, "PENDING", "SYNCING")
       IN IF queueItem.status # "SYNCING" /\ r.ok
          THEN /\ queue' = r.queue
               /\ SetFg(p, [fg[p] EXCEPT !.pc = "item", !.item = queueItem,
                                         !.pending = Tail(fg[p].pending),
                                         !.lost = Null])
          ELSE /\ queue' = queue
               /\ SetFg(p, [fg[p] EXCEPT !.pending = Tail(fg[p].pending),
                                         !.lost = queueItem.id])
    /\ UNCHANGED <<memos, nextItem, now, online, serverVars, userVars, fgStarted,
                   sw, swStarted, timers>>

\* the loop is over: checkSyncComplete returns at once when no cycle is
\* active, else it asks for the PENDING items
FgDoneWith(p, track) ==
    /\ fg[p].pc = "claim"
    /\ fg[p].pending = <<>>
    /\ SetFg(p, IF track /\ coord.isSyncing THEN [IdleFg EXCEPT !.pc = "check"]
                ELSE IdleFg)
    /\ UNCHANGED <<queue, memos, nextItem, now, online, serverVars, userVars,
                   fgStarted, sw, swStarted, timers>>

FgDone(p) == FgDoneWith(p, FALSE)

\* checkSyncComplete, after getPendingItems has answered; the pass is over
FgCheck(p) ==
    /\ fg[p].pc = "check"
    /\ Followed(TRUE, checkSyncComplete(coord, published, queue))
    /\ SetFg(p, IdleFg)
    /\ UNCHANGED <<queue, memos, nextItem, now, online, serverVars, clientVars,
                   fgStarted, sw, swStarted, timers>>

\* --------------------------------------- OfflineMemoService.syncQueueItem
\* the syncStatus written before the request of each type
SyncingStatus(type) ==
    CASE type = "CREATE" -> "syncing_create"
      [] type = "UPDATE" -> "syncing_update"
      [] OTHER -> "syncing_delete"

\* the first part of syncQueueItem: the row is read, marked syncing_* and
\* saved, and the request is issued; a missing row or serverId throws
FgBeginWith(p, track) ==
    /\ fg[p].pc = "item"
    /\ LET it == fg[p].item
           lm == getMemoByLocalId(it.localMemoId)
       IN IF lm = NoMemo /\ it.type = "DELETE"
          THEN \* already deleted: markAsSuccess and return
               /\ queue' = markAsSuccess(queue, it.id)
               /\ memos' = memos
               /\ SetFg(p, [fg[p] EXCEPT !.pc = "claim", !.item = NoItem])
          ELSE IF lm = NoMemo \/ (it.type # "CREATE" /\ lm.serverId = Null)
          THEN /\ UNCHANGED <<queue, memos>>
               /\ SetFg(p, [fg[p] EXCEPT !.pc = "catch"])
          ELSE LET lm2 == [lm EXCEPT !.syncStatus = SyncingStatus(it.type)]
                   \* CREATE without a key: one is generated and the copy of
                   \* the item is written back
                   it2 == IF it.type = "CREATE" /\ it.idempotencyKey = Null
                          THEN [it EXCEPT !.idempotencyKey = SwMemos + it.id]
                          ELSE it
               IN /\ memos' = Put(memos, lm.localId, lm2)
                  /\ queue' = IF it2 # it THEN updateQueueItem(queue, it2) ELSE queue
                  /\ SetFg(p, [fg[p] EXCEPT !.pc = "send", !.item = it2,
                                            !.localMemo = lm2])
    /\ Followed(track, IF fg[p].item.type = "DELETE"
                          /\ getMemoByLocalId(fg[p].item.localMemoId) = NoMemo
                       THEN Progress ELSE Same)
    /\ UNCHANGED <<nextItem, now, online, serverVars, clientVars, fgStarted,
                   sw, swStarted, timers>>

FgBegin(p) == FgBeginWith(p, FALSE)

\* the request reaches the server and is answered
FgSend(p) ==
    /\ fg[p].pc = "send"
    /\ online
    /\ LET it == fg[p].item
       IN \/ /\ it.type = "CREATE"
             /\ sent' = sent \cup {Request("POST", Null, it.idempotencyKey,
                                           it.data, "fg")}
             /\ ServerPost(it.idempotencyKey, it.data.memo)
             /\ SetFg(p, [fg[p] EXCEPT !.pc = "resp",
                                       !.resp = PostAnswer(it.idempotencyKey)])
          \/ /\ it.type = "UPDATE"
             /\ sent' = sent \cup {Request("PUT", it.serverMemoId, Null,
                                           it.data, "fg")}
             /\ ServerUnchanged
             /\ SetFg(p, [fg[p] EXCEPT !.pc = IF ServerPutOk(it.serverMemoId)
                                              THEN "resp" ELSE "catch"])
          \/ /\ it.type = "DELETE"
             /\ sent' = sent \cup {Request("DELETE", it.serverMemoId, Null,
                                           it.data, "fg")}
             /\ ServerDelete(it.serverMemoId)
             /\ SetFg(p, [fg[p] EXCEPT !.pc = IF ServerDeleteOk(it.serverMemoId)
                                              THEN "resp" ELSE "catch"])
    /\ UNCHANGED <<queue, memos, nextItem, now, online, fails, userVars, fgStarted,
                   sw, swStarted, timers>>

\* the request fails before the server acts on it (transport error, 5xx,
\* offline): apiClient throws
FgSendFailUpTo(p, maxFail) ==
    /\ fg[p].pc = "send"
    /\ \/ ~online /\ fails' = fails
       \/ online /\ fails < maxFail /\ fails' = fails + 1
    /\ SetFg(p, [fg[p] EXCEPT !.pc = "catch"])
    /\ UNCHANGED <<queue, memos, nextItem, now, online, rows, keyIds, nextRow, sent,
                   userVars, fgStarted, sw, swStarted, timers>>

FgSendFail(p) == FgSendFailUpTo(p, MaxFail)

\* updateMemoWithServerId: one transaction on the row, a no-op when it is gone
updateMemoWithServerId(ms, localId, serverId) ==
    IF Has(ms, localId)
    THEN [ms EXCEPT ![localId].serverId = serverId, ![localId].syncStatus = "synced"]
    ELSE ms

\* the answer arrives.  CREATE: the server id is stored, the row read again
\* and the items of the memo are read for the cascade (a row that is gone
\* makes localMemo.localId throw).  UPDATE: the copy read before the request
\* is saved as synced.  DELETE: the row is deleted.  Then markAsSuccess.
FgRespWith(p, track) ==
    /\ fg[p].pc = "resp"
    /\ LET it == fg[p].item
           lm == fg[p].localMemo
       IN \/ /\ it.type = "CREATE"
             /\ memos' = updateMemoWithServerId(memos, lm.localId, fg[p].resp)
             /\ queue' = queue
             /\ IF Has(memos, lm.localId)
                THEN SetFg(p, [fg[p] EXCEPT
                         !.pc = "cascade",
                         !.localMemo = memos'[lm.localId],
                         !.related = getQueueItemsByLocalMemoId(queue, lm.localId)])
                ELSE SetFg(p, [fg[p] EXCEPT !.pc = "catch"])
          \/ /\ it.type = "UPDATE"
             /\ memos' = Put(memos, lm.localId, [lm EXCEPT !.syncStatus = "synced"])
             /\ queue' = markAsSuccess(queue, it.id)
             /\ SetFg(p, [fg[p] EXCEPT !.pc = "claim", !.item = NoItem,
                                       !.localMemo = NoMemo])
          \/ /\ it.type = "DELETE"
             /\ memos' = Del(memos, lm.localId)
             /\ queue' = markAsSuccess(queue, it.id)
             /\ SetFg(p, [fg[p] EXCEPT !.pc = "claim", !.item = NoItem,
                                       !.localMemo = NoMemo])
    /\ Followed(track, IF fg[p].item.type = "CREATE" THEN Same ELSE Progress)
    /\ UNCHANGED <<nextItem, now, online, serverVars, clientVars, fgStarted,
                   sw, swStarted, timers>>

FgResp(p) == FgRespWith(p, FALSE)

\* the cascade: every UPDATE/DELETE copy without serverMemoId is written back
\* with the new id
RECURSIVE cascade(_, _, _)
cascade(q, related, serverId) ==
    IF related = <<>> THEN q
    ELSE LET r == Head(related)
             q2 == IF r.type \in {"UPDATE", "DELETE"} /\ r.serverMemoId = Null
                   THEN updateQueueItem(q, [r EXCEPT !.serverMemoId = serverId])
                   ELSE q
         IN cascade(q2, Tail(related), serverId)

\* hybrid retention: a memoStartTime more than 7 days back
olderThanRetention(memo, t) == memo.memoStartTime < t - RetentionDays

\* CREATE, the rest: cascade, retention or save as synced, markAsSuccess
FgCascadeWith(p, track) ==
    /\ fg[p].pc = "cascade"
    /\ LET it == fg[p].item
           lm == fg[p].localMemo
       IN /\ queue' = markAsSuccess(cascade(queue, fg[p].related, fg[p].resp), it.id)
          /\ memos' = IF olderThanRetention(lm, now) THEN Del(memos, lm.localId)
                      ELSE Put(memos, lm.localId, [lm EXCEPT !.syncStatus = "synced"])
    /\ SetFg(p, [fg[p] EXCEPT !.pc = "claim", !.item = NoItem, !.localMemo = NoMemo,
                              !.related = <<>>, !.resp = Null])
    /\ Followed(track, Progress)
    /\ UNCHANGED <<nextItem, now, online, serverVars, clientVars, fgStarted,
                   sw, swStarted, timers>>

FgCascade(p) == FgCascadeWith(p, FALSE)

\* the catch block: the row, if any, is saved as failed; markAsFailed stores
\* FAILED and retryCount + 1 and arms the backoff timer below maxRetries
FgCatchWith(p, track) ==
    /\ fg[p].pc = "catch"
    /\ LET it == fg[p].item
       IN /\ memos' = IF Has(memos, it.localMemoId)
                      THEN [memos EXCEPT ![it.localMemoId].syncStatus = "failed"]
                      ELSE memos
          /\ queue' = markAsFailed(queue, it.id)
          /\ timers' = IF ArmsTimer(queue, it.id)
                       THEN timers \cup {FailedCopy(queue[it.id])} ELSE timers
    /\ SetFg(p, [fg[p] EXCEPT !.pc = "claim", !.item = NoItem, !.localMemo = NoMemo,
                              !.related = <<>>, !.resp = Null])
    /\ Followed(track, Progress)
    /\ UNCHANGED <<nextItem, now, online, serverVars, clientVars, fgStarted,
                   sw, swStarted>>

FgCatch(p) == FgCatchWith(p, FALSE)

\* the backoff timer fires: retrySync(item) enqueues the copy again, as a new
\* PENDING item with retryCount 0, when the memo exists and is not synced
retrySyncUpTo(item, maxItems) ==
    /\ item \in timers
    /\ timers' = timers \ {item}
    /\ IF item.localMemoId # Null /\ Has(memos, item.localMemoId)
          /\ memos[item.localMemoId].syncStatus # "synced"
       THEN /\ nextItem < maxItems
            /\ queue' = enqueue(queue, nextItem + 1,
                                [item EXCEPT !.status = "PENDING"], now)
            /\ nextItem' = nextItem + 1
            /\ now' = now + 1
       ELSE UNCHANGED <<queue, nextItem, now>>
    /\ UNCHANGED <<memos, online, serverVars, userVars, passVars>>

retrySync(item) == retrySyncUpTo(item, MaxItems)

\* ------------------------------------------- service worker syncPendingMemos
fgVars == <<fg, fgStarted>>

\* sort key of the background pass: data.memoStartTime, else createdAt
ReplayTime(item) == IF item.data.mst # Null THEN item.data.mst ELSE item.createdAt
ReplayPairs(s) == [i \in 1..Len(s) |-> <<ReplayTime(s[i]), s[i]>>]
pendingQueueItems(q) == Items(SortPairs(ReplayPairs(getPendingItems(q))))

\* updateQueueItemStatus(id, status): the status is stored whatever it was
updateQueueItemStatus(q, queueItemId, status) ==
    IF Has(q, queueItemId) THEN [q EXCEPT ![queueItemId].status = status] ELSE q

\* updateQueueItemWithRetry: PENDING again, with the retry count
updateQueueItemWithRetry(q, queueItemId, retryCount) ==
    IF Has(q, queueItemId)
    THEN [q EXCEPT ![queueItemId].status = "PENDING",
                   ![queueItemId].retryCount = retryCount]
    ELSE q

\* the sync event: the health check answers, the WAITING items are read
SwStart ==
    /\ sw.pc = "idle"
    /\ online
    /\ swStarted < MaxSwPasses
    /\ swStarted' = swStarted + 1
    /\ sw' = [IdleSw EXCEPT !.pc = "promote", !.waiting = getWaitingItems(queue)]
    /\ lastUpdate' = Null
    /\ UNCHANGED <<queue, memos, nextItem, now, online, serverVars, nextMemo, user,
                   deleted, cancelled, shelfVars, coordVars, fgVars, timers>>

SwPromote ==
    /\ sw.pc = "promote"
    /\ sw.waiting # <<>>
    /\ queue' = promoteWaiting(queue, Head(sw.waiting))
    /\ sw' = [sw EXCEPT !.waiting = Tail(sw.waiting)]
    /\ UNCHANGED <<memos, nextItem, now, online, serverVars, userVars, fgVars,
                   swStarted, timers>>

SwGetPending ==
    /\ sw.pc = "promote"
    /\ sw.waiting = <<>>
    /\ sw' = [sw EXCEPT !.pc = "claim", !.pending = pendingQueueItems(queue)]
    /\ UNCHANGED <<queue, memos, nextItem, now, online, serverVars, userVars,
                   fgVars, swStarted, timers>>

\* one turn of the loop: the item is set SYNCING and its request is issued
SwClaim ==
    /\ sw.pc = "claim"
    /\ sw.pending # <<>>
    /\ queue' = updateQueueItemStatus(queue, Head(sw.pending).id, "SYNCING")
    /\ sw' = [sw EXCEPT !.pc = "send", !.item = Head(sw.pending),
                        !.pending = Tail(sw.pending)]
    /\ UNCHANGED <<memos, nextItem, now, online, serverVars, userVars, fgVars,
                   swStarted, timers>>

SwDone ==
    /\ sw.pc = "claim"
    /\ sw.pending = <<>>
    /\ sw' = IdleSw
    /\ UNCHANGED <<queue, memos, nextItem, now, online, serverVars, userVars,
                   fgVars, swStarted, timers>>

\* replayRequest: POST /memos, PUT or DELETE /memos/{serverMemoId}, with a
\* Content-Type header only
SwSend ==
    /\ sw.pc = "send"
    /\ online
    /\ LET it == sw.item
       IN \/ /\ it.type = "CREATE"
             /\ sent' = sent \cup {Request("POST", Null, Null, it.data, "sw")}
             /\ ServerPost(Null, it.data.memo)
             /\ sw' = [sw EXCEPT !.pc = "resp", !.ok = TRUE]
          \/ /\ it.type = "UPDATE"
             /\ sent' = sent \cup {Request("PUT", it.serverMemoId, Null,
                                           it.data, "sw")}
             /\ ServerUnchanged
             /\ sw' = [sw EXCEPT !.pc = "resp", !.ok = ServerPutOk(it.serverMemoId)]
          \/ /\ it.type = "DELETE"
             /\ sent' = sent \cup {Request("DELETE", it.serverMemoId, Null,
                                           it.data, "sw")}
             /\ ServerDelete(it.serverMemoId)
             /\ sw' = [sw EXCEPT !.pc = "resp", !.ok = ServerDeleteOk(it.serverMemoId)]
    /\ UNCHANGED <<queue, memos, nextItem, now, online, fails, userVars, fgVars,
                   swStarted, timers>>

\* fetch rejects, or the server answers 5xx
SwSendFail ==
    /\ sw.pc = "send"
    /\ \/ ~online /\ fails' = fails
       \/ online /\ fails < MaxFail /\ fails' = fails + 1
    /\ sw' = [sw EXCEPT !.pc = "resp", !.ok = FALSE]
    /\ UNCHANGED <<queue, memos, nextItem, now, online, rows, keyIds, nextRow, sent,
                   userVars, fgVars, swStarted, timers>>

\* handleSyncFailure: below maxRetries the item is PENDING again with the
\* count of the copy + 1 (and the sync is registered again), else FAILED
handleSyncFailure(q, queueItem) ==
    IF queueItem.retryCount + 1 < maxRetries
    THEN updateQueueItemWithRetry(q, queueItem.id, queueItem.retryCount + 1)
    ELSE updateQueueItemStatus(q, queueItem.id, "FAILED")

SwResp ==
    /\ sw.pc = "resp"
    /\ queue' = IF sw.ok THEN updateQueueItemStatus(queue, sw.item.id, "SUCCESS")
                ELSE handleSyncFailure(queue, sw.item)
    /\ sw' = [sw EXCEPT !.pc = "claim", !.item = NoItem, !.ok = FALSE]
    /\ UNCHANGED <<memos, nextItem, now, online, serverVars, userVars, fgVars,
                   swStarted, timers>>

\* ------------------------------------------------------- OfflineBookService
\* what no shelf operation and no shelf pass touches
shelfSideVars == <<memos, nextMemo, user, deleted, cancelled, lastUpdate, fg, fgStarted,
                   timers, online, serverVars, sw, swStarted>>
memoSideVars == <<shelfSideVars, coordVars>>

\* the value a field of a shelf entry has on the server and in a new entry
\* (category 'ToRead'), and the value an edit gives it
ServerValue == 1
EditedValue == 2
\* the updateData of an edit: each field is left undefined or set
UpdateDatas ==
    {[category |-> c, rating |-> r] : c \in {Null, EditedValue}, r \in {Null, EditedValue}}

\* the Idempotency-Key of a shelf CREATE (a UUID of its own)
BookKey(localId) == SwMemos + MaxItems + localId

\* the object a shelf operation hands to enqueue: it names the row in
\* localBookId and serverBookId, which enqueue does not copy
BookItem(type, localBook) ==
    [NoItem EXCEPT !.type = type] @@
    [localBookId |-> localBook.localId, serverBookId |-> localBook.serverId]

\* addBookToShelf(bookData): row saved as pending, CREATE enqueued with a key
addBookToShelf ==
    /\ shelf.op = "idle"
    /\ nextBook < MaxBooks
    /\ nextItem < MaxItems
    /\ LET localId == nextBook + 1
           id == nextItem + 1
           row == [NoBook EXCEPT !.localId = localId, !.syncStatus = "pending",
                                 !.syncQueueId = id, !.category = ServerValue]
       IN /\ queue' = enqueue(queue, id,
                              [BookItem("CREATE", row) EXCEPT
                                   !.idempotencyKey = BookKey(localId)], now)
          /\ books' = Put(books, localId, row)
          /\ nextBook' = localId
          /\ nextItem' = id
          /\ now' = now + 1
    /\ db' = init(db) /\ net' = net
    /\ UNCHANGED <<shelf, bk, shelfSideVars, coordOnly>>

\* getBookByServerId: the row with that serverId, NoBook when there is none
getBookByServerId(serverId) ==
    LET ids == {b \in DOMAIN books : books[b].serverId = serverId}
    IN IF serverId = Null \/ ids = {} THEN NoBook
       ELSE books[CHOOSE b \in ids : \A c \in ids : b <= c]

\* saveServerBookAsLocal(serverBook): the row of that serverId is saved as
\* synced, or a new row is stored with the serverId
saveServerBookAsLocal(serverId) ==
    /\ shelf.op = "idle"
    /\ LET existingBook == getBookByServerId(serverId)
       IN IF existingBook # NoBook
          THEN /\ books' = Put(books, existingBook.localId,
                               [existingBook EXCEPT !.category = ServerValue,
                                                    !.rating = ServerValue,
                                                    !.syncStatus = "synced"])
               /\ nextBook' = nextBook
          ELSE /\ nextBook < MaxBooks
               /\ books' = Put(books, nextBook + 1,
                               [NoBook EXCEPT !.localId = nextBook + 1,
                                              !.serverId = serverId,
                                              !.syncStatus = "synced",
                                              !.category = ServerValue,
                                              !.rating = ServerValue])
               /\ nextBook' = nextBook + 1
    /\ db' = init(db) /\ net' = net
    /\ UNCHANGED <<queue, nextItem, now, shelf, bk, shelfSideVars, coordOnly>>

\* updateBook(bookId, updateData), up to the first write: only a row with a
\* serverId can be edited; the fields updateData defines go into the copy
updateBookReadWith(b, updateData) ==
    /\ shelf.op = "idle"
    /\ Has(books, b)
    /\ books[b].serverId # Null
    /\ nextItem < MaxItems
    /\ shelf' = [op |-> "update",
                 localBook |-> [books[b] EXCEPT
                     !.category = IF updateData.category # Null
                                  THEN updateData.category ELSE @,
                     !.rating = IF updateData.rating # Null
                                THEN updateData.rating ELSE @,
                     !.syncStatus = "pending"],
                 updateData |-> updateData]
    /\ db' = init(db) /\ net' = net
    /\ UNCHANGED <<queue, nextItem, now, books, nextBook, bk, shelfSideVars, coordOnly>>

updateBookRead(b) == updateBookReadWith(b, NoUpdate)

\* the data of the UPDATE item: { userBookId: serverId, ...updateData }
UpdateBookData(localBook, updateData) ==
    [userBookId |-> localBook.serverId, category |-> updateData.category,
     rating |-> updateData.rating] @@ NoItem.data

\* updateBook, the writes: the item named by syncQueueId is removed, an UPDATE
\* is enqueued and the copy is saved
updateBookWrite ==
    /\ shelf.op = "update"
    /\ nextItem < MaxItems
    /\ LET lb == shelf.localBook
           id == nextItem + 1
           q1 == IF lb.syncQueueId # Null THEN removeQueueItem(queue, lb.syncQueueId)
                 ELSE queue
       IN /\ queue' = enqueue(q1, id,
                              [BookItem("UPDATE", lb) EXCEPT
                                   !.data = UpdateBookData(lb, shelf.updateData)], now)
          /\ books' = Put(books, lb.localId, [lb EXCEPT !.syncQueueId = id])
          /\ nextItem' = id
          /\ now' = now + 1
    /\ shelf' = IdleShelf
    /\ UNCHANGED <<nextBook, bk, memoSideVars>>

\* removeBookFromShelf, the read
removeBookRead(b) ==
    /\ shelf.op = "idle"
    /\ Has(books, b)
    /\ shelf' = [IdleShelf EXCEPT !.op = "remove", !.localBook = books[b]]
    /\ db' = init(db) /\ net' = net
    /\ UNCHANGED <<queue, nextItem, now, books, nextBook, bk, shelfSideVars, coordOnly>>

\* removeBookFromShelf, no serverId: the row and the item named by syncQueueId
\* go at once
removeBookLocalOnly ==
    /\ shelf.op = "remove"
    /\ shelf.localBook.serverId = Null
    /\ books' = Del(books, shelf.localBook.localId)
    /\ queue' = IF shelf.localBook.syncQueueId # Null
                THEN removeQueueItem(queue, shelf.localBook.syncQueueId) ELSE queue
    /\ shelf' = IdleShelf
    /\ UNCHANGED <<nextItem, now, nextBook, bk, memoSideVars>>

\* removeBookFromShelf of a row with a serverId: a PENDING DELETE item, the
\* row stays and is marked pending
removeBookEnqueue ==
    /\ shelf.op = "remove"
    /\ shelf.localBook.serverId # Null
    /\ nextItem < MaxItems
    /\ LET lb == shelf.localBook
           id == nextItem + 1
       IN /\ queue' = enqueue(queue, id, BookItem("DELETE", lb), now)
          /\ books' = Put(books, lb.localId,
                          [lb EXCEPT !.syncStatus = "pending", !.syncQueueId = id])
          /\ nextItem' = id
          /\ now' = now + 1
    /\ shelf' = IdleShelf
    /\ UNCHANGED <<nextBook, bk, memoSideVars>>

\* syncPendingBooks: the PENDING items that have a localBookId, by createdAt
IsBookItem(item) == "localBookId" \in DOMAIN item /\ item.localBookId # Null
pendingBookItems(q) ==
    Items(SortPairs(CreatedAtPairs(SelectSeq(getPendingItems(q), IsBookItem))))

\* a pass of the shelf driver starts and reads its items
BkStartWith(track) ==
    /\ bk.pc = "idle"
    /\ online
    /\ db.open
    /\ bk' = [pc |-> "claim", pending |-> pendingBookItems(queue)]
    /\ Followed(track, StartIfIdle(queue))
    /\ UNCHANGED <<queue, nextItem, now, books, nextBook, shelf, shelfSideVars>>

BkStart == BkStartWith(FALSE)

\* the loop is over
BkDoneWith(track) ==
    /\ bk.pc = "claim"
    /\ bk.pending = <<>>
    /\ bk' = IF track /\ coord.isSyncing THEN [IdleBk EXCEPT !.pc = "check"] ELSE IdleBk
    /\ UNCHANGED <<queue, nextItem, now, books, nextBook, shelf, memoSideVars>>

BkDone == BkDoneWith(FALSE)

\* checkSyncComplete of the shelf pass, after getPendingItems has answered
BkCheck ==
    /\ bk.pc = "check"
    /\ Followed(TRUE, checkSyncComplete(coord, published, queue))
    /\ bk' = IdleBk
    /\ UNCHANGED <<queue, nextItem, now, books, nextBook, shelf, shelfSideVars>>

ShelfNext ==
    \/ addBookToShelf
    \/ \E serverId \in ServerBookIds : saveServerBookAsLocal(serverId)
    \/ \E b \in BookIds : updateBookRead(b)
    \/ updateBookWrite
    \/ \E b \in BookIds : removeBookRead(b)
    \/ removeBookLocalOnly
    \/ removeBookEnqueue
    \/ BkStart
    \/ BkDone

\* --------------------------------------------------------------------- Next
NetNext == GoOnline \/ GoOffline

UserNext(maxMemos) ==
    \/ \E mst \in MemoStartTimes : createMemo(mst, maxMemos)
    \/ \E m \in MemoIds : updateMemoRead(m)
    \/ updateMemoWrite
    \/ \E m \in MemoIds : deleteMemoRead(m)
    \/ deleteMemoLocalOnly
    \/ deleteMemoEnqueue

FgNext(p) ==
    \/ FgStart(p)
    \/ FgPromote(p)
    \/ FgGetPending(p)
    \/ FgClaim(p)
    \/ FgDone(p)
    \/ FgBegin(p)
    \/ FgSend(p)
    \/ FgSendFail(p)
    \/ FgResp(p)
    \/ FgCascade(p)
    \/ FgCatch(p)

TimerNext == \E item \in timers : retrySync(item)

SwNext ==
    \/ SwStart
    \/ SwPromote
    \/ SwGetPending
    \/ SwClaim
    \/ SwDone
    \/ SwSend
    \/ SwSendFail
    \/ SwResp

\* the foreground: the user, the passes of the memo driver, the backoff timers
Next ==
    NetNext \/ UserNext(MaxMemos) \/ (\E p \in FgIds : FgNext(p)) \/ TimerNext

Spec == Init /\ [][Next]_vars

\* the foreground with one pass at a time, and the background sync worker
NextBg ==
    NetNext \/ UserNext(MaxMemos) \/ FgNext(1) \/ TimerNext \/ SwNext

SpecBg == Init /\ [][NextBg]_vars

\* the page writes memos and starts no pass of its own (it is offline, or
\* closed before the network is back): the background sync worker replays alone
NextSw ==
    \/ NetNext
    \/ \E mst \in MemoStartTimes : createMemo(mst, SwMemos)
    \/ \E m \in MemoIds : deleteMemoRead(m)
    \/ deleteMemoLocalOnly
    \/ SwStart
    \/ SwGetPending
    \/ SwClaim
    \/ SwDone
    \/ SwSend
    \/ SwSendFail
    \/ SwResp

SpecSw == Init /\ [][NextSw]_vars

\* one page that writes memos and syncs them through failing calls: the
\* foreground pass, the catch block and the backoff timers
NextRetry ==
    \/ \E mst \in MemoStartTimes : createMemo(mst, MaxMemos)
    \/ FgStart(1)
    \/ FgGetPending(1)
    \/ FgClaim(1)
    \/ FgDone(1)
    \/ FgBegin(1)
    \/ FgSend(1)
    \/ FgSendFailUpTo(1, RetryFail)
    \/ FgResp(1)
    \/ FgCascade(1)
    \/ FgCatch(1)
    \/ TimerNext

SpecRetry == Init /\ [][NextRetry]_vars

\* one page that edits a memo several times, online and offline
NextCoalesce ==
    \/ NetNext
    \/ \E mst \in MemoStartTimes : createMemo(mst, MaxMemos)
    \/ \E m \in MemoIds, content \in Contents :
          updateMemoReadWith(m, content, CoalesceItems)
    \/ updateMemoWriteUpTo(CoalesceItems)
    \/ FgStart(1)
    \/ FgGetPending(1)
    \/ FgClaim(1)
    \/ FgDone(1)
    \/ FgBegin(1)
    \/ FgSend(1)
    \/ FgSendFail(1)
    \/ FgResp(1)
    \/ FgCascade(1)
    \/ FgCatch(1)
    \/ TimerNext

SpecCoalesce == Init /\ [][NextCoalesce]_vars

\* checkAndStartSync, up to the answer of getPendingItems
CheckAndStartSyncBegin ==
    /\ api.starter = "idle"
    /\ ~coord.isSyncing
    /\ db.open
    /\ published.start < MaxStarts
    /\ api' = [api EXCEPT !.starter = "read"]
    /\ UNCHANGED <<db, net, gateVars, coord, published, queue, memos, nextItem, now, online, serverVars,
                   clientVars, passVars, timers>>

\* checkAndStartSync, the rest: setSyncComplete when nothing is PENDING, else
\* startSync
CheckAndStartSyncEnd ==
    /\ api.starter = "read"
    /\ LET r == IF getPendingItems(queue) = <<>> THEN setSyncComplete(coord, published)
                ELSE startSync(coord, published)
       IN /\ coord' = r.coord
          /\ published' = r.published
          /\ api' = publish([api EXCEPT !.starter = "idle"], published, r.published)
          /\ GateFollows(published, r, online)
    /\ UNCHANGED <<db, net, queue, memos, nextItem, now, online, serverVars, clientVars,
                   passVars, timers>>

\* waitForSyncComplete called while no cycle is active: true, at once
WaitNow ==
    /\ api.waiter = "idle"
    /\ api.result = "none"
    /\ ~coord.isSyncing
    /\ api' = [api EXCEPT !.result = "true"]
    /\ UNCHANGED <<db, net, gateVars, coord, published, queue, memos, nextItem, now, online, serverVars,
                   clientVars, passVars, timers>>

\* waitForSyncComplete called while a cycle is active: the subscriber is
\* registered and the first poll begins
WaitPoll ==
    /\ api.waiter = "idle"
    /\ api.result = "none"
    /\ coord.isSyncing
    /\ api' = [api EXCEPT !.waiter = "read", !.elapsed = FALSE]
    /\ UNCHANGED <<db, net, gateVars, coord, published, queue, memos, nextItem, now, online, serverVars,
                   clientVars, passVars, timers>>

\* the promise after resolve(value): the first call settles it
resolve(a, value) == IF a.result = "none" THEN [a EXCEPT !.result = value] ELSE a

\* the poll never resolves false: it sleeps again after the timeout
CheckCompleteNoTimeout(a, isComplete) ==
    IF isComplete THEN [resolve(a, "true") EXCEPT !.waiter = "idle"]
    ELSE [a EXCEPT !.waiter = "sleep"]

\* checkComplete, after checkSyncComplete has answered: true when complete,
\* false when the timeout has elapsed, else the next poll in 500 ms
checkComplete(a, isComplete) ==
    IF isComplete THEN [resolve(a, "true") EXCEPT !.waiter = "idle"]
    ELSE IF a.elapsed THEN [resolve(a, "false") EXCEPT !.waiter = "idle"]
    ELSE [a EXCEPT !.waiter = "sleep"]

\* the poll's checkSyncComplete, after getPendingItems has answered
WaitCheck ==
    /\ api.waiter = "read"
    /\ LET r == checkSyncComplete(coord, published, queue)
       IN /\ coord' = r.coord
          /\ published' = r.published
          /\ api' = checkComplete(publish(api, published, r.published),
                                  getPendingItems(queue) = <<>>)
          /\ GateFollows(published, r, online)
    /\ UNCHANGED <<db, net, queue, memos, nextItem, now, online, serverVars, clientVars,
                   passVars, timers>>

\* the 500 ms timer of the poll: checkSyncComplete answers true at once when
\* no cycle is active, else it reads the outbox
WaitWake ==
    /\ api.waiter = "sleep"
    /\ api' = IF ~coord.isSyncing THEN checkComplete(api, TRUE)
              ELSE [api EXCEPT !.waiter = "read"]
    /\ UNCHANGED <<db, net, gateVars, coord, published, queue, memos, nextItem, now, online, serverVars,
                   clientVars, passVars, timers>>

\* the clock passes startTime + timeout while the polls go on
WaitElapse ==
    /\ api.waiter # "idle"
    /\ ~api.elapsed
    /\ api' = [api EXCEPT !.elapsed = TRUE]
    /\ UNCHANGED <<db, net, gateVars, coord, published, queue, memos, nextItem, now, online, serverVars,
                   clientVars, passVars, timers>>

\* the caller takes the value of the settled promise once the polls have ended
WaitReturn ==
    /\ api.waiter = "idle"
    /\ api.result # "none"
    /\ api' = [api EXCEPT !.result = "none", !.elapsed = FALSE]
    /\ UNCHANGED <<db, net, gateVars, coord, published, queue, memos, nextItem, now, online, serverVars,
                   clientVars, passVars, timers>>

\* the coordinator with its callers: two passes of the memo driver, the shelf
\* driver, a waiter and a call of checkAndStartSync
NextCoord ==
    \/ NetNext
    \/ \E mst \in MemoStartTimes : createMemo(mst, MaxMemos)
    \/ addBookToShelf
    \/ \E p \in FgIds :
          \/ FgStart(p)
          \/ FgGetPendingWith(p, TRUE)
          \/ FgClaim(p)
          \/ FgDoneWith(p, TRUE)
          \/ FgCheck(p)
          \/ FgBeginWith(p, TRUE)
          \/ FgSend(p)
          \/ FgSendFail(p)
          \/ FgRespWith(p, TRUE)
          \/ FgCascadeWith(p, TRUE)
          \/ FgCatchWith(p, TRUE)
    \/ BkStartWith(TRUE)
    \/ BkDoneWith(TRUE)
    \/ BkCheck
    \/ CheckAndStartSyncBegin
    \/ CheckAndStartSyncEnd
    \/ WaitNow
    \/ WaitPoll
    \/ WaitCheck
    \/ WaitWake
    \/ WaitReturn

SpecCoord == Init /\ [][NextCoord]_vars

\* a caller of waitForSyncComplete with its timeout, beside one pass of the
\* memo driver, the shelf driver and a call of checkAndStartSync
NextWait ==
    \/ NetNext
    \/ \E mst \in MemoStartTimes : createMemo(mst, MaxMemos)
    \/ addBookToShelf
    \/ FgStart(1)
    \/ FgGetPendingWith(1, TRUE)
    \/ FgClaim(1)
    \/ FgDoneWith(1, TRUE)
    \/ FgCheck(1)
    \/ FgBeginWith(1, TRUE)
    \/ FgSend(1)
    \/ FgSendFail(1)
    \/ FgRespWith(1, TRUE)
    \/ FgCascadeWith(1, TRUE)
    \/ FgCatchWith(1, TRUE)
    \/ BkStartWith(TRUE)
    \/ BkDoneWith(TRUE)
    \/ BkCheck
    \/ CheckAndStartSyncBegin
    \/ CheckAndStartSyncEnd
    \/ WaitNow
    \/ WaitPoll
    \/ WaitCheck
    \/ WaitWake
    \/ WaitElapse
    \/ WaitReturn

SpecWait == Init /\ [][NextWait]_vars

\* ------------------------------------- networkMonitor, NetworkStateManager
\* a call of syncPendingMemos by a handler: it returns at once when
\* networkMonitor says offline; calls beyond MaxInvoked are not followed
invoke(n, isOnline) ==
    IF isOnline /\ n.invoked < MaxInvoked THEN [n EXCEPT !.invoked = @ + 1] ELSE n

\* transitionToOnline(): network:online:start, the state, network:online;
\* offlineMemoService's subscriber of network:online calls syncPendingMemos
transitionToOnline(n, isOnline) ==
    IF n.manager.state = "transitioning" THEN n
    ELSE invoke([n EXCEPT !.manager = [isOnline |-> TRUE, state |-> "online"],
                          !.emitted = @ \o <<"network:online:start", "network:online">>,
                          !.last = "network:online"], isOnline)

\* transitionToOffline(): network:offline:start, the state, network:offline
transitionToOffline(n) ==
    IF n.manager.state = "transitioning" THEN n
    ELSE [n EXCEPT !.manager = [isOnline |-> FALSE, state |-> "offline"],
                   !.emitted = @ \o <<"network:offline:start", "network:offline">>,
                   !.last = "network:offline"]

\* handleNetworkStatusChange(isOnline), the listener of networkMonitor
handleNetworkStatusChange(n, isOnline, monitorOnline) ==
    IF isOnline /\ ~n.manager.isOnline THEN transitionToOnline(n, monitorOnline)
    ELSE IF ~isOnline /\ n.manager.isOnline THEN transitionToOffline(n)
    ELSE n

\* the listener of networkStatusChanged: isOnline is assigned first, and the
\* two conditions are evaluated on the assigned value
networkStatusChanged(n, isLocalServerReachable, monitorOnline) ==
    LET n2 == [n EXCEPT !.manager.isOnline = isLocalServerReachable]
    IN IF isLocalServerReachable /\ ~n2.manager.isOnline
       THEN transitionToOnline(n2, monitorOnline)
       ELSE IF ~isLocalServerReachable /\ n2.manager.isOnline
       THEN transitionToOffline(n2)
       ELSE n2

\* what the steps of the network machine leave alone
netSideVars == <<coordOnly, db, queue, memos, nextItem, now, serverVars, clientVars,
                 passVars, timers>>

\* the browser's online event: isOnline, the listeners, and onNetworkOnline
\* begins with its delay (one chain of probes is followed)
BrowserOnline ==
    /\ ~online
    /\ online' = TRUE
    /\ net' = [handleNetworkStatusChange([net EXCEPT !.emitted = <<>>], TRUE, TRUE)
                 EXCEPT !.probe = "delay"]
    /\ UNCHANGED netSideVars

\* the browser's offline event: the flags are reset, then the listeners
BrowserOffline ==
    /\ online
    /\ online' = FALSE
    /\ net' = handleNetworkStatusChange(
                 [net EXCEPT !.emitted = <<>>, !.isLocalServerReachable = FALSE,
                             !.isExternalServiceReachable = FALSE], FALSE, FALSE)
    /\ UNCHANGED netSideVars

\* onNetworkOnline, stage 1: checkServerHealth answers ok (never offline);
\* when it fails the status is notified and the probe runs again in 5 s
ProbeLocal(ok) ==
    /\ net.probe = "delay"
    /\ ok => online
    /\ LET n == [net EXCEPT !.emitted = <<>>, !.isLocalServerReachable = ok]
       IN net' = IF ok THEN [n EXCEPT !.probe = "external"]
                 ELSE networkStatusChanged(n, FALSE, online)
    /\ UNCHANGED <<online, netSideVars>>

\* onNetworkOnline, stage 2: checkExternalServiceHealth answers ok; the
\* status is notified and handleSyncSuccess calls syncPendingMemos either way
ProbeExternal(ok) ==
    /\ net.probe = "external"
    /\ ok => online
    /\ LET n == [net EXCEPT !.emitted = <<>>, !.isExternalServiceReachable = ok,
                             !.probe = "idle"]
       IN net' = invoke(networkStatusChanged(n, TRUE, online), online)
    /\ UNCHANGED <<online, netSideVars>>

\* S1: createMemo while offline
createMemoOffline ==
    /\ ~online
    /\ createMemo(Null, MaxMemos)

\* the network machine with the passes its handlers call
NextNet ==
    \/ BrowserOnline
    \/ BrowserOffline
    \/ \E ok \in BOOLEAN : ProbeLocal(ok)
    \/ \E ok \in BOOLEAN : ProbeExternal(ok)
    \/ createMemoOffline
    \/ \E p \in FgIds :
          \/ FgStartWith(p, TRUE)
          \/ FgGetPending(p)
          \/ FgClaim(p)
          \/ FgDone(p)
          \/ FgBegin(p)
          \/ FgSend(p)
          \/ FgSendFail(p)
          \/ FgResp(p)
          \/ FgCascade(p)
          \/ FgCatch(p)
    \/ TimerNext

SpecNet == Init /\ [][NextNet]_vars

\* ------------------------------------------------------------- start-up
\* what a call that throws at once leaves alone
startupSideVars == <<coordOnly, queue, memos, nextItem, now, online, serverVars,
                     clientVars, passVars, timers>>

\* syncPendingMemos while dbManager.db is null: it does not await init, and
\* getWaitingItems throws on dbManager.db.transaction; the pass ends there
FgStartUninitialized(p) ==
    /\ fg[p].pc = "idle"
    /\ online
    /\ ~db.open
    /\ db' = [db EXCEPT !.error = TRUE] /\ net' = net
    /\ UNCHANGED startupSideVars

\* syncPendingBooks while dbManager.db is null: getPendingItems throws
BkStartUninitialized ==
    /\ bk.pc = "idle"
    /\ online
    /\ ~db.open
    /\ db' = [db EXCEPT !.error = TRUE] /\ net' = net
    /\ UNCHANGED startupSideVars

\* checkAndStartSync while dbManager.db is null: getPendingItems throws
CheckAndStartSyncUninitialized ==
    /\ api.starter = "idle"
    /\ ~coord.isSyncing
    /\ ~db.open
    /\ db' = [db EXCEPT !.error = TRUE] /\ net' = net
    /\ UNCHANGED startupSideVars

\* the application from its start: the network events, the first user
\* operation, the passes of both drivers and checkAndStartSync
NextStartup ==
    \/ NetNext
    \/ \E mst \in MemoStartTimes : createMemo(mst, MaxMemos)
    \/ addBookToShelf
    \/ FgStartUninitialized(1)
    \/ BkStartUninitialized
    \/ CheckAndStartSyncUninitialized
    \/ FgStart(1)
    \/ FgGetPendingWith(1, TRUE)
    \/ FgClaim(1)
    \/ FgDoneWith(1, TRUE)
    \/ FgCheck(1)
    \/ FgBeginWith(1, TRUE)
    \/ FgSend(1)
    \/ FgSendFail(1)
    \/ FgRespWith(1, TRUE)
    \/ FgCascadeWith(1, TRUE)
    \/ FgCatchWith(1, TRUE)
    \/ BkStartWith(TRUE)
    \/ BkDoneWith(TRUE)
    \/ BkCheck
    \/ CheckAndStartSyncBegin
    \/ CheckAndStartSyncEnd

SpecStartup == Init /\ [][NextStartup]_vars

\* --------------------------------------------------- memoService (facade)
\* what the steps of a facade call leave alone
facadeSideVars == <<coord, published, api, online, user, deleted, cancelled, shelfVars,
                    lastUpdate, passVars, timers>>

\* createMemo(memoData) of the facade, up to its first await: through the
\* Gate when online and a cycle is active, server-first when online, else
\* store-first.  Calls are numbered in the order they are made.
FacadeCreateMemo(c, mst) ==
    /\ calls[c].state = "none"
    /\ \A b \in CallIds : b < c => calls[b].state # "none"
    /\ LET cs == [calls EXCEPT ![c].mst = mst, ![c].cycle = published.start]
           d == IF online
                THEN IF coord.isSyncing
                     THEN requestEnqueue(gate, cs, c, coord.isSyncing, online)
                     ELSE [gate |-> gate, calls |-> [cs EXCEPT ![c].state = "server"]]
                ELSE [gate |-> gate, calls |-> [cs EXCEPT ![c].state = "local"]]
       IN gate' = d.gate /\ calls' = d.calls
    /\ UNCHANGED <<db, net, queue, memos, nextItem, nextMemo, now, serverVars, facadeSideVars>>

\* apiClient.post(MEMOS.CREATE, memoData) reaches the server and is answered
FacadePost(c) ==
    /\ calls[c].state = "server"
    /\ online
    /\ sent' = sent \cup {Request("POST", Null, Null,
                                  [memo |-> Null, mst |-> calls[c].mst, content |-> Null],
                                  "facade")}
    /\ ServerPost(Null, Null)
    /\ calls' = [calls EXCEPT ![c].state = "reconcile", ![c].resp = PostAnswer(Null)]
    /\ UNCHANGED <<db, net, gate, fails, queue, memos, nextItem, nextMemo, now, facadeSideVars>>

\* what apiClient throws: a transport error, or the error of an HTTP status
Transport == [status |-> Null, message |-> "Failed to fetch"]
HttpErrors == {[status |-> s, message |-> "other"] : s \in {400, 404, 500, 503}}

\* handleServerError: the error is a network error by its message or by
\* navigator.onLine
isNetworkError(error, navigatorOnLine) ==
    \/ error.message \in {"Failed to fetch", "NetworkError", "network"}
    \/ ~navigatorOnLine

\* the request fails: handleServerError runs the store-first fallback on a
\* network error and throws the error again otherwise
FacadePostFailUpTo(c, error, maxFail) ==
    /\ calls[c].state = "server"
    /\ \/ ~online /\ error = Transport /\ fails' = fails
       \/ online /\ fails < maxFail /\ fails' = fails + 1
    /\ LET cs == [calls EXCEPT ![c].error = error]
           d == IF isNetworkError(error, online)
                THEN [gate |-> gate, calls |-> [cs EXCEPT ![c].state = "local"]]
                ELSE settle(gate, cs, c, "failed", error, coord.isSyncing, online)
       IN gate' = d.gate /\ calls' = d.calls
    /\ UNCHANGED <<db, net, rows, keyIds, nextRow, sent, queue, memos, nextItem, nextMemo, now,
                   facadeSideVars>>

FacadePostFail(c, error) == FacadePostFailUpTo(c, error, MaxFail)

\* dbManager.getMemoByServerId
getMemoByServerId(ms, serverId) ==
    LET ids == {i \in DOMAIN ms : ms[i].serverId = serverId}
    IN IF ids = {} THEN NoMemo ELSE ms[CHOOSE i \in ids : TRUE]

\* updateLocalAfterCreate(serverMemo): the row of that serverId is saved as
\* synced, or dropped when older than the retention; without such a row the
\* server memo is saved as a new synced row unless older than the retention
updateLocalAfterCreate(ms, serverId, mst, localId, t) ==
    LET localMemo == getMemoByServerId(ms, serverId)
        serverMemo == [localId |-> localId, serverId |-> serverId,
                       syncStatus |-> "synced", syncQueueId |-> Null,
                       memoStartTime |-> IF mst = Null THEN t ELSE mst,
                       content |-> Null]
    IN IF localMemo # NoMemo
       THEN IF olderThanRetention(localMemo, t) THEN Del(ms, localMemo.localId)
            ELSE Put(ms, localMemo.localId, [localMemo EXCEPT !.syncStatus = "synced"])
       ELSE IF olderThanRetention(serverMemo, t) THEN ms
            ELSE Put(ms, localId, serverMemo)

\* the answer of the POST arrives: the store is reconciled and the call
\* returns
FacadeReconcile(c, maxMemos) ==
    /\ calls[c].state = "reconcile"
    /\ nextMemo < maxMemos
    /\ memos' = updateLocalAfterCreate(memos, calls[c].resp, calls[c].mst, nextMemo + 1, now)
    /\ nextMemo' = IF Has(memos', nextMemo + 1) THEN nextMemo + 1 ELSE nextMemo
    /\ LET d == settle(gate, calls, c, "done", NoError, coord.isSyncing, online)
       IN gate' = d.gate /\ calls' = d.calls
    /\ db' = init(db) /\ net' = net
    /\ UNCHANGED <<queue, nextItem, now, serverVars, facadeSideVars>>

\* the store-first path, of an offline call or as the fallback:
\* offlineMemoService.createMemo, and the call returns
FacadeLocal(c, maxMemos) ==
    /\ calls[c].state = "local"
    /\ nextMemo < maxMemos
    /\ nextItem < MaxItems
    /\ createMemoWrites(calls[c].mst)
    /\ LET d == settle(gate, calls, c, "done", NoError, coord.isSyncing, online)
       IN gate' = d.gate /\ calls' = d.calls
    /\ db' = init(db) /\ net' = net
    /\ UNCHANGED <<serverVars, facadeSideVars>>

\* requestQueueManager.clear()
GateClear ==
    /\ gate.queue # <<>> \/ gate.isProcessing
    /\ LET d == clear(gate, calls)
       IN gate' = d.gate /\ calls' = d.calls
    /\ UNCHANGED <<db, net, queue, memos, nextItem, nextMemo, now, serverVars, facadeSideVars>>

\* the facade with the Gate, beside offlineMemoService.createMemo and one
\* pass of the memo driver
NextGate ==
    \/ NetNext
    \/ createMemo(Null, GateMemos)
    \/ \E c \in 1..GateCalls :
          \/ FacadeCreateMemo(c, Null)
          \/ FacadePost(c)
          \/ FacadePostFail(c, Transport)
          \/ FacadeReconcile(c, GateMemos)
          \/ FacadeLocal(c, GateMemos)
    \/ GateClear
    \/ FgStart(1)
    \/ FgGetPendingWith(1, TRUE)
    \/ FgClaim(1)
    \/ FgDoneWith(1, TRUE)
    \/ FgCheck(1)
    \/ FgBeginWith(1, TRUE)
    \/ FgSend(1)
    \/ FgRespWith(1, TRUE)
    \/ FgCascadeWith(1, TRUE)

SpecGate == Init /\ [][NextGate]_vars

\* the facade alone, with every error apiClient may throw
NextFacade ==
    \/ NetNext
    \/ \E c \in CallIds :
          \/ \E mst \in MemoStartTimes : FacadeCreateMemo(c, mst)
          \/ FacadePost(c)
          \/ \E error \in HttpErrors \cup {Transport} : FacadePostFail(c, error)
          \/ FacadeReconcile(c, GateMemos)
          \/ FacadeLocal(c, GateMemos)

SpecFacade == Init /\ [][NextFacade]_vars

\* the shelf: its operations, the pass of its driver and, in the background,
\* the sync worker, which replays every PENDING item of the outbox
NextShelf ==
    \/ NetNext
    \/ ShelfNext
    \/ SwStart
    \/ SwGetPending
    \/ SwClaim
    \/ SwDone
    \/ SwSend
    \/ SwSendFail
    \/ SwResp

SpecShelf == Init /\ [][NextShelf]_vars

\* ------------------------------------------- bookService.updateBookDetail
\* updateBookDetail(localId, updateData) for a row without a serverId, with
\* no cycle active: online, getLocalBook finds the row and, as it has no
\* serverId, offlineBookService.updateBook is called and throws; the error
\* is no network error, so handleServerError throws it again (and when the
\* browser is offline by then the fallback, updateBook again, throws too).
\* Offline, updateBook is called at once and throws.
updateBookDetailUnsynced(b) ==
    /\ shelf.op = "idle"
    /\ Has(books, b)
    /\ books[b].serverId = Null
    /\ ~(online /\ coord.isSyncing)
    /\ shelf' = [IdleShelf EXCEPT !.op = "rejected", !.localBook = books[b]]
    /\ db' = init(db) /\ net' = net
    /\ UNCHANGED <<queue, nextItem, now, books, nextBook, bk, shelfSideVars, coordOnly>>

\* the caller of updateBookDetail gets the rejection
updateBookDetailThrows ==
    /\ shelf.op = "rejected"
    /\ shelf' = IdleShelf
    /\ UNCHANGED <<queue, nextItem, now, books, nextBook, bk, memoSideVars>>

\* S6: shelf entries are added and edited while the browser goes online and
\* offline and the shelf driver runs
NextS6 ==
    \/ NetNext
    \/ ShelfNext
    \/ \E b \in BookIds : updateBookDetailUnsynced(b)
    \/ updateBookDetailThrows

SpecS6 == Init /\ [][NextS6]_vars

\* ------------------------------------------------------ a delete that waits
\* one page that creates, edits and deletes a memo while one foreground pass
\* at a time replays the outbox through a failing call and its backoff timer
NextWaiting ==
    \/ createMemo(Null, MaxMemos)
    \/ \E m \in MemoIds : updateMemoReadWith(m, Null, WaitItems)
    \/ updateMemoWriteUpTo(WaitItems)
    \/ \E m \in MemoIds : deleteMemoRead(m)
    \/ deleteMemoLocalOnly
    \/ deleteMemoEnqueueUpTo(WaitItems)
    \/ FgStart(1)
    \/ FgPromote(1)
    \/ FgGetPending(1)
    \/ FgClaim(1)
    \/ FgDone(1)
    \/ FgBegin(1)
    \/ FgSend(1)
    \/ FgSendFail(1)
    \/ FgResp(1)
    \/ FgCascade(1)
    \/ FgCatch(1)
    \/ \E item \in timers : retrySyncUpTo(item, WaitItems)

SpecWaiting == Init /\ [][NextWaiting]_vars

\* ------------------------------------------------------- the end of a cycle
\* one page, online or offline: memos and shelf entries are added, and the
\* memo driver and the shelf driver run their passes with the coordinator
NextCycle ==
    \/ NetNext
    \/ createMemo(Null, MaxMemos)
    \/ addBookToShelf
    \/ FgStart(1)
    \/ FgGetPendingWith(1, TRUE)
    \/ FgClaim(1)
    \/ FgDoneWith(1, TRUE)
    \/ FgCheck(1)
    \/ FgBeginWith(1, TRUE)
    \/ FgSend(1)
    \/ FgRespWith(1, TRUE)
    \/ FgCascadeWith(1, TRUE)
    \/ BkStartWith(TRUE)
    \/ BkDoneWith(TRUE)
    \/ BkCheck

\* the event loop runs every continuation that is ready, and the passes of
\* both drivers keep being started while the browser is online
SpecCycle ==
    /\ Init
    /\ [][NextCycle]_vars
    /\ WF_vars(NextCycle)
    /\ WF_vars(FgStart(1) \/ FgGetPendingWith(1, TRUE) \/ FgClaim(1)
                 \/ FgDoneWith(1, TRUE) \/ FgCheck(1) \/ FgBeginWith(1, TRUE)
                 \/ FgSend(1) \/ FgRespWith(1, TRUE) \/ FgCascadeWith(1, TRUE))
    /\ WF_vars(BkStartWith(TRUE) \/ BkDoneWith(TRUE) \/ BkCheck)

\* --------------------------------------------------- edits of shelf entries
\* one page, online or offline: entries come from the server's list or are
\* added, and are edited field by field and removed; the shelf driver runs
NextFields ==
    \/ NetNext
    \/ addBookToShelf
    \/ \E serverId \in ServerBookIds : saveServerBookAsLocal(serverId)
    \/ \E b \in BookIds, updateData \in UpdateDatas : updateBookReadWith(b, updateData)
    \/ updateBookWrite
    \/ \E b \in BookIds : removeBookRead(b)
    \/ removeBookLocalOnly
    \/ removeBookEnqueue
    \/ BkStart
    \/ BkDone

SpecFields == Init /\ [][NextFields]_vars

\* ----------------------------------------------------------------- claims
\* a foreground pass holds an item it claimed (syncQueueItem is running)
FgHolds(p) == fg[p].pc \in {"item", "send", "resp", "cascade", "catch"}
\* the background pass holds an item it set SYNCING (replayRequest is running)
SwHolds == sw.pc \in {"send", "resp"}
\* the outbox items of memo m in one of the given statuses
ItemsOf(m, statuses) ==
    {i \in DOMAIN queue : queue[i].localMemoId = m /\ queue[i].status \in statuses}

\* C1: every memo has at most one outbox item in PENDING or SYNCING, and at
\* most one WAITING item
C1_SingleWriter ==
    \A m \in MemoIds :
        /\ Cardinality(ItemsOf(m, {"PENDING", "SYNCING"})) <= 1
        /\ Cardinality(ItemsOf(m, {"WAITING"})) <= 1

\* C2: the claim step of a foreground pass gets true from tryUpdateStatus
\* exactly when the item is stored with status PENDING; then the stored status
\* becomes SYNCING and nothing else in the outbox changes, otherwise the outbox
\* is unchanged.  Hence of two passes claiming one PENDING item, the second
\* finds SYNCING and gets false.
C2_CompareAndSet ==
    [][\A p \in FgIds :
         (fg[p].pc = "claim" /\ fg[p].pending # <<>> /\ fg'[p] # fg[p]) =>
            LET id == Head(fg[p].pending).id
                got == fg'[p].pc = "item"
            IN /\ got <=> (Has(queue, id) /\ queue[id].status = "PENDING")
               /\ got => queue' = [queue EXCEPT ![id].status = "SYNCING"]
               /\ ~got => (queue' = queue /\ fg'[p].lost = id)]_vars

\* C2 (witness): two passes raced for one item; one holds it, the other got
\* false for it
C2_RaceLost ==
    \E p, r \in FgIds :
        /\ p # r
        /\ FgHolds(p)
        /\ fg[r].lost = fg[p].item.id
        /\ Has(queue, fg[p].item.id)
        /\ queue[fg[p].item.id].status = "SYNCING"

\* C3: no outbox item is replayed by the foreground driver and by the
\* background sync worker at the same time
C3_OneDriverPerItem ==
    \A p \in FgIds : ~(FgHolds(p) /\ SwHolds /\ fg[p].item.id = sw.item.id)

\* C4: every POST sent for a memo carries the Idempotency-Key stored when its
\* CREATE was enqueued (createMemo stores the key of memo m as m), and the key
\* stored on a CREATE item of the memo stays that key
C4_KeyFixedAtEnqueue ==
    /\ \A r \in sent : r.method = "POST" => r.key = r.memo
    /\ \A i \in DOMAIN queue :
           queue[i].type = "CREATE" => queue[i].idempotencyKey = queue[i].localMemoId

\* C5: however the CREATE of a memo is replayed, the server holds at most one
\* row for the memo
C5_OneServerRow ==
    \A m \in MemoIds : Cardinality({r \in DOMAIN rows : rows[r].memo = m}) <= 1

\* C6: within a pass the item being replayed was enqueued no later than the
\* items the pass has still to claim (the loop claims them in list order)
C6_CreatedAtOrder ==
    /\ \A p \in FgIds :
           FgHolds(p) => \A k \in 1..Len(fg[p].pending) :
                             fg[p].item.createdAt <= fg[p].pending[k].createdAt
    /\ SwHolds => \A k \in 1..Len(sw.pending) :
                      sw.item.createdAt <= sw.pending[k].createdAt

\* C7: no PUT or DELETE request is addressed to a null server id
C7_NoRequestToNullId ==
    \A r \in sent : r.method \in {"PUT", "DELETE"} => r.target # Null

\* the CREATE of memo m has completed: the server holds its row and no pass is
\* still inside the CREATE branch of syncQueueItem for it
CreateCompleted(m) ==
    /\ \E r \in DOMAIN rows : rows[r].memo = m
    /\ \A p \in FgIds : ~(FgHolds(p) /\ fg[p].item.type = "CREATE"
                                      /\ fg[p].item.localMemoId = m)

\* C8: an UPDATE or DELETE item claimed after the CREATE of its memo has
\* completed has its serverMemoId set
C8_CascadeBeforeClaim ==
    [][\A p \in FgIds :
         (fg[p].pc = "claim" /\ fg'[p].pc = "item") =>
            LET it == fg'[p].item
            IN (it.type \in {"UPDATE", "DELETE"} /\ CreateCompleted(it.localMemoId))
                   => (it.serverMemoId # Null /\ queue'[it.id].serverMemoId # Null)]_vars

\* C9: a serverId that is set on a memo row never changes, for as long as the
\* row exists
C9_ServerIdWriteOnce ==
    [][\A m \in MemoIds :
         (Has(memos, m) /\ memos[m].serverId # Null /\ Has(memos', m))
             => memos'[m].serverId = memos[m].serverId]_vars

\* C10: a deleteMemo that found a CREATE or UPDATE item of the memo SYNCING
\* enqueues a DELETE item with status WAITING whose originalQueueId is the id
\* of that item
C10_DeleteWaitsForInFlight ==
    [][(user.op = "delete" /\ user.inFlight # Null /\ user'.op = "idle") =>
          \E j \in DOMAIN queue' \ DOMAIN queue :
              /\ queue'[j].type = "DELETE"
              /\ queue'[j].status = "WAITING"
              /\ queue'[j].originalQueueId = user.inFlight]_vars

\* nothing is left to run: no user operation, pass or timer is under way and
\* no outbox item is PENDING, SYNCING or WAITING
Quiescent ==
    /\ user.op = "idle"
    /\ \A p \in FgIds : fg[p].pc = "idle"
    /\ sw.pc = "idle"
    /\ timers = {}
    /\ \A i \in DOMAIN queue : queue[i].status \notin {"PENDING", "SYNCING", "WAITING"}

\* C11: once everything has run, the server holds no row for a memo whose
\* deleteMemo call has returned, unless a DELETE item of the memo ended FAILED
C11_DeletedMemoLeavesServer ==
    \A m \in deleted :
        (Quiescent /\ \E r \in DOMAIN rows : rows[r].memo = m)
            => \E i \in DOMAIN queue : /\ queue[i].localMemoId = m
                                       /\ queue[i].type = "DELETE"
                                       /\ queue[i].status = "FAILED"

\* C12: an outbox item leaves WAITING only for PENDING, and only in a step
\* that finds the item named by its originalQueueId stored with status
\* SUCCESS; no pass, foreground or background, claims an item that is WAITING
C12_PromotionGuarded ==
    [][/\ \A i \in DOMAIN queue :
            (queue[i].status = "WAITING" /\ i \in DOMAIN queue'
                                         /\ queue'[i].status # "WAITING") =>
                /\ queue'[i].status = "PENDING"
                /\ Has(queue, queue[i].originalQueueId)
                /\ queue[queue[i].originalQueueId].status = "SUCCESS"
       /\ \A p \in FgIds :
            (fg[p].pc = "claim" /\ fg'[p].pc = "item") =>
                queue[fg'[p].item.id].status # "WAITING"
       /\ (sw.pc = "claim" /\ sw'.pc = "send") =>
            ~(Has(queue, sw'.item.id) /\ queue[sw'.item.id].status = "WAITING")]_vars

\* C12 (witness): a pass has promoted a WAITING item whose original is SUCCESS
C12_Promoted ==
    \E i \in DOMAIN queue :
        /\ queue[i].originalQueueId # Null
        /\ queue[i].status # "WAITING"
        /\ Has(queue, queue[i].originalQueueId)
        /\ queue[queue[i].originalQueueId].status = "SUCCESS"

\* the outbox items left FAILED by attempts of the operation that item is for
FailedAttempts(item) ==
    {i \in DOMAIN queue : /\ queue[i].localMemoId = item.localMemoId
                          /\ queue[i].type = item.type
                          /\ queue[i].status = "FAILED"}

\* C13: no backoff timer is armed for an operation that has failed three times
\* in a row (every failed attempt leaves its FAILED item in the outbox)
C13_BoundedRetry ==
    \A item \in timers : Cardinality(FailedAttempts(item)) < maxRetries

\* C14: when a backoff timer fires and changes the outbox, it changes the item
\* that failed: the same id goes back to PENDING with its retryCount kept, and
\* no item is added
C14_RearmSameItem ==
    [][\A item \in timers :
         (item \notin timers' /\ queue' # queue) =>
            /\ DOMAIN queue' = DOMAIN queue
            /\ Has(queue', item.id)
            /\ queue'[item.id].status = "PENDING"
            /\ queue'[item.id].retryCount = item.retryCount]_vars

\* the DELETE of the item a foreground pass holds was answered 2xx
DeleteAcknowledged(p, m) ==
    /\ fg[p].pc = "resp"
    /\ fg[p].item.type = "DELETE"
    /\ fg[p].item.localMemoId = m
    /\ \E r \in sent : r.method = "DELETE" /\ r.target = fg[p].item.serverMemoId

\* C15: a row leaves the local store only (a) after the server acknowledged
\* the DELETE for it, or (b) when it has no serverId and the user cancels it,
\* or (c) by memo retention; a failed DELETE call leaves the row in place and
\* no shelf row is removed by retention.
C15_RowRemovalCauses ==
    [][/\ \A m \in DOMAIN memos : m \notin DOMAIN memos' =>
            \/ \E p \in FgIds : DeleteAcknowledged(p, m)
            \/ /\ user.op = "delete"
               /\ user.localMemo.localId = m
               /\ memos[m].serverId = Null
            \/ \E p \in FgIds : /\ fg[p].pc = "cascade"
                                /\ fg[p].localMemo.localId = m
                                /\ olderThanRetention(fg[p].localMemo, now)
       /\ \A b \in DOMAIN books : b \notin DOMAIN books' =>
            /\ shelf.op = "remove"
            /\ shelf.localBook.localId = b
            /\ books[b].serverId = Null
       /\ \A p \in FgIds :
            (fg[p].pc = "catch" /\ fg'[p].pc # "catch") => DOMAIN memos' = DOMAIN memos
      ]_vars

\* the step in which pass p ends a successful CREATE or UPDATE sync
SyncSucceeds(p) ==
    \/ fg[p].pc = "cascade" /\ fg'[p].pc # "cascade"
    \/ fg[p].pc = "resp" /\ fg[p].item.type = "UPDATE" /\ fg'[p].pc # "resp"

\* C16: after a successful CREATE or UPDATE sync of a memo whose memoStartTime
\* is more than 7 days old the row is absent from the local store; after one
\* of a memo within the last 7 days the row is present with syncStatus synced.
C16_RetentionOnSync ==
    [][\A p \in FgIds : SyncSucceeds(p) =>
          LET lm == fg[p].localMemo
          IN IF olderThanRetention(lm, now)
             THEN ~Has(memos', lm.localId)
             ELSE Has(memos', lm.localId) /\ memos'[lm.localId].syncStatus = "synced"
      ]_vars

\* the UPDATE items of memo m in outbox q
UpdateItemsOf(q, m) == {i \in DOMAIN q : q[i].type = "UPDATE" /\ q[i].localMemoId = m}

\* the write of an updateMemo call on a synced memo that follows another
\* update of that memo with no sync pass in between, a PENDING UPDATE queued
UpdateFollowsUpdate ==
    /\ user.op = "update"
    /\ user.localMemo.serverId # Null
    /\ lastUpdate = user.localMemo.localId
    /\ NoPassRuns
    /\ \E i \in UpdateItemsOf(queue, user.localMemo.localId) : queue[i].status = "PENDING"

\* C17: after several updates of one synced memo made while a PENDING UPDATE
\* for it is queued and with no sync pass in between, the outbox holds exactly
\* one UPDATE item for the memo, with the values of the latest update, and
\* the PUT a pass sends for an UPDATE item carries the item's body.
C17_UpdateCoalescing ==
    [][/\ (UpdateFollowsUpdate /\ user'.op = "idle") =>
            \E i \in DOMAIN queue' :
                /\ UpdateItemsOf(queue', user.localMemo.localId) = {i}
                /\ queue'[i].status = "PENDING"
                /\ queue'[i].data.content = user.localMemo.content
       /\ \A p \in FgIds :
            (fg[p].pc = "send" /\ fg[p].item.type = "UPDATE" /\ sent' # sent) =>
                \E r \in sent' : /\ sent' = sent \cup {r}
                                 /\ r.method = "PUT"
                                 /\ r.target = fg[p].item.serverMemoId
                                 /\ r.body = fg[p].item.data.content
      ]_vars

\* C18: once deleteMemo has returned for a memo without serverId, the store
\* holds no row for it, the outbox holds no item with its localMemoId, and no
\* request for it is sent any more, a backoff timer armed before the delete
\* included.
C18_LocalOnlyDeleteIsFinal ==
    [][\A m \in cancelled' :
          /\ ~Has(memos', m)
          /\ \A i \in DOMAIN queue' : queue'[i].localMemoId # m
          /\ \A p \in FgIds :
               (fg[p].pc = "send" /\ fg'[p].pc # "send") => fg[p].item.localMemoId # m
          /\ (sw.pc = "send" /\ sw'.pc # "send") => sw.item.localMemoId # m
      ]_vars

\* C19: while a cycle is active a call of startSync begins no new cycle: no
\* sync:start is published, syncStartTime stays and the processed counter is
\* not reset; only the first call of a cycle makes the coordinator active.
C19_StartIdempotent ==
    [][(coord.isSyncing /\ coord'.isSyncing) =>
          /\ published'.start = published.start
          /\ coord'.syncStartTime = coord.syncStartTime
          /\ coord'.totalProcessedCount >= coord.totalProcessedCount
      ]_vars

\* C20: sync:complete is published once per cycle: only while a cycle is
\* active, which it ends, only by a check that found no PENDING item, and a
\* cycle becomes active again only with a sync:start; so between two
\* sync:start there is at most one sync:complete, whoever calls
\* checkSyncComplete at the same time.
C20_CompleteOncePerCycle ==
    [][/\ published'.complete # published.complete =>
            /\ published'.complete = published.complete + 1
            /\ coord.isSyncing
            /\ ~coord'.isSyncing
            /\ getPendingItems(queue) = <<>>
       /\ (~coord.isSyncing /\ coord'.isSyncing) =>
            published'.start = published.start + 1
       /\ published'.complete <= published'.start
      ]_vars

\* a sync:complete has been published while a pass of the memo driver, the
\* shelf pass and a waiter are still inside checkSyncComplete
C20_ConcurrentChecks ==
    /\ published.complete = 1
    /\ published.start = 1
    /\ \E p \in FgIds : fg[p].pc = "check"
    /\ bk.pc = "check"
    /\ api.waiter = "read"
    /\ ~coord.isSyncing

\* C21: waitForSyncComplete settles with true or false and with nothing else.
\* A call made while no cycle is active settles true in that step; a call that
\* waits settles true exactly when the cycle it waits for is complete (the
\* step that publishes sync:complete settles it, and no step settles it true
\* while a cycle is still active); it settles false only at a poll that finds
\* the timeout elapsed and the cycle still active, and every such poll of an
\* unsettled call settles it false.
C21_WaitOutcome ==
    [][/\ api'.result \in {"none", "true", "false"}
       /\ (api.waiter = "idle" /\ api.result = "none" /\ ~coord.isSyncing
              /\ <<api'.waiter, api'.result>> # <<api.waiter, api.result>>)
              => api'.result = "true"
       /\ (api.result = "none" /\ api'.result = "true") => ~coord'.isSyncing
       /\ (api.result = "none" /\ api.waiter # "idle"
              /\ published'.complete > published.complete) => api'.result = "true"
       /\ (api.result = "none" /\ api'.result = "false")
              => api.waiter = "read" /\ api.elapsed /\ coord'.isSyncing
       /\ (api.result = "none" /\ api.waiter = "read" /\ api'.waiter # "read"
              /\ api.elapsed /\ coord'.isSyncing) => api'.result = "false"]_vars

\* a call has settled false at a poll after the timeout while its cycle goes
\* on, an earlier cycle having been completed
C21_TimedOut ==
    /\ api.result = "false"
    /\ api.waiter = "idle"
    /\ coord.isSyncing
    /\ published.complete > 0

\* the states of a call of the facade that has settled
SettledStates == {"done", "failed", "rejected"}
\* the Gate starts call c in this step
GateStarts(c) ==
    calls[c].state = "queued" /\ calls'[c].state \in {"server", "local", "reconcile"}

\* C22: the Gate is first-in first-out: when it starts a deferred operation,
\* every operation handed in before it has started and has settled, and the
\* operations still queued are the queue, in hand-in order, each once.
C22_GateFifo ==
    [][/\ \A b \in CallIds : GateStarts(b) =>
              \A a \in CallIds : (a < b /\ calls[a].gated) => calls'[a].state \in SettledStates
       /\ \A i, j \in 1..Len(gate'.queue) : i < j => gate'.queue[i] < gate'.queue[j]
       /\ \A c \in CallIds :
              calls'[c].state = "queued" <=> \E i \in 1..Len(gate'.queue) : gate'.queue[i] = c]_vars

\* C23: the Gate starts a deferred operation only while no cycle is active,
\* and only in a step that publishes sync:complete or in which the drain
\* goes on after the operation it awaited has settled; while a cycle is
\* active a queued operation stays queued (or is rejected by clear), and an
\* operation handed in during a cycle is queued, not run.
C23_NoStartWhileSyncing ==
    [][\A c \in CallIds :
          /\ GateStarts(c) =>
                /\ ~coord'.isSyncing
                /\ \/ published'.complete > published.complete
                   \/ \E a \in CallIds : /\ calls[a].gated
                                          /\ calls[a].state \notin SettledStates
                                          /\ calls'[a].state \in SettledStates
          /\ (calls[c].state = "queued" /\ coord'.isSyncing)
                => calls'[c].state \in {"queued", "rejected"}
          /\ (calls[c].state = "none" /\ calls'[c].gated /\ coord.isSyncing)
                => calls'[c].state = "queued"]_vars

\* two operations were handed in during the first cycle; the second cycle
\* began while the drain awaited the first operation: the drain has stopped
\* after it, and the second operation is still queued
C23_DrainPaused ==
    /\ calls[1].gated
    /\ calls[1].cycle = 1
    /\ calls[2].cycle = 1
    /\ published.start = 2
    /\ calls[1].state = "done"
    /\ calls[2].state = "queued"
    /\ gate.queue = <<2>>
    /\ ~gate.isProcessing
    /\ coord.isSyncing

\* C24: clear() leaves the queue empty and rejects the promise of every
\* operation that was still queued with the cancellation error; an operation
\* is rejected so only from the queue, and a rejected operation is never run.
C24_ClearRejectsQueued ==
    [][/\ (gate.queue # <<>> /\ gate'.queue = <<>> /\ ~\E c \in CallIds : GateStarts(c))
          => \A c \in CallIds : calls[c].state = "queued"
                => calls'[c].state = "rejected" /\ calls'[c].rejection = Cancellation
       /\ \A c \in CallIds :
             /\ (calls[c].state # "rejected" /\ calls'[c].state = "rejected")
                   => calls[c].state = "queued" /\ gate'.queue = <<>>
             /\ calls[c].state = "rejected" => calls'[c] = calls[c]]_vars

\* clear() has rejected two queued operations, and the cycle during which
\* they were handed in has completed with nothing for the Gate to run
C24_TwoCancelled ==
    /\ calls[1].state = "rejected"
    /\ calls[2].state = "rejected"
    /\ calls[2].rejection = Cancellation
    /\ gate.queue = <<>>
    /\ published.complete >= calls[2].cycle

\* C25: a call of the facade made while online and a cycle is active is
\* handed to the Gate and does nothing (no request, no write to the store or
\* the outbox) before the sync:complete of that cycle; the Gate then runs it
\* server-first, and the caller's promise settles with the result of that run.
C25_DeferredWhileSyncing ==
    [][\A c \in CallIds :
          /\ (calls[c].state = "none" /\ calls'[c].state # "none" /\ online /\ coord.isSyncing)
                => /\ calls'[c].state = "queued"
                   /\ UNCHANGED <<sent, rows, memos, queue>>
          /\ (calls[c].state = "queued" /\ calls'[c].state \notin {"queued", "rejected"})
                => (published'.complete >= calls[c].cycle /\ ~coord'.isSyncing)
          /\ GateStarts(c) => calls'[c].state = "server"
          /\ (calls[c].gated /\ calls'[c].state = "failed")
                => calls'[c].rejection = calls'[c].error]_vars

\* C25 (as the code has it): a call of the facade made while online and a
\* cycle is active is handed to the Gate and does nothing before the
\* sync:complete of that cycle; the Gate then runs the facade method again,
\* server-first when networkMonitor says online at that moment and
\* store-first when it says offline, and the caller's promise settles with
\* the result of that run.
C25_DeferredThenRedispatched ==
    [][\A c \in CallIds :
          /\ (calls[c].state = "none" /\ calls'[c].state # "none" /\ online /\ coord.isSyncing)
                => /\ calls'[c].state = "queued"
                   /\ UNCHANGED <<sent, rows, memos, queue>>
          /\ (calls[c].state = "queued" /\ calls'[c].state \notin {"queued", "rejected"})
                => (published'.complete >= calls[c].cycle /\ ~coord'.isSyncing)
          /\ GateStarts(c) => calls'[c].state = IF online THEN "server" ELSE "local"
          /\ (calls[c].gated /\ calls'[c].state = "failed")
                => calls'[c].rejection = calls'[c].error]_vars

\* a deferred call was run by the Gate while offline and has returned after
\* the store-first write, no request of the facade having been sent
C25_RanStoreFirst ==
    /\ calls[1].gated
    /\ calls[1].state = "done"
    /\ calls[1].resp = Null
    /\ calls[1].error = NoError
    /\ \A r \in sent : r.by # "facade"

\* C26: when the request of a server-first call fails with a failure of the
\* network class (a transport error, the offline flag, any 5xx status) the
\* facade falls back to the store-first path, which writes
\* the row and its outbox item and returns without error; on any other
\* failure nothing is put in the outbox and the caller gets the error as it
\* was thrown.
C26_FailureClassification ==
    [][\A c \in CallIds :
          /\ (calls[c].state = "server" /\ calls[c].error = NoError
                 /\ calls'[c].error # NoError)
                => IF \/ calls'[c].error = Transport
                      \/ ~online
                      \/ calls'[c].error.status >= 500
                   THEN calls'[c].state = "local"
                   ELSE /\ calls'[c].state = "failed"
                        /\ calls'[c].rejection = calls'[c].error
                        /\ queue' = queue
          /\ (calls[c].state = "local" /\ calls'[c].state # "local")
                => /\ calls'[c].state = "done"
                   /\ calls'[c].rejection = NoError
                   /\ Has(queue', nextItem') /\ ~Has(queue, nextItem')
                   /\ Has(memos', nextMemo') /\ ~Has(memos, nextMemo')]_vars

\* C27: no operation of the store or the outbox is called before init has
\* opened the database: every path, a sync pass started by network:online
\* before any user operation included, awaits init first.
C27_InitBeforeStore == ~db.error

\* C28: syncPendingMemos is called only once the local health check has
\* succeeded; while that check fails the probe is run again and nothing is
\* synced; when the local check succeeds and the external one fails the sync
\* is called all the same, the state being local reachable, external
\* unreachable.
C28_ProbeBeforeSync ==
    [][/\ net'.invoked > net.invoked => net'.isLocalServerReachable
       /\ (net.probe = "delay" /\ net'.probe = "delay" /\ online' = online)
             => net'.invoked <= net.invoked
       /\ (net.probe = "external" /\ net'.probe = "idle" /\ online
                /\ ~net'.isExternalServiceReachable /\ net.invoked < MaxInvoked)
             => /\ net'.invoked > net.invoked
                /\ net'.isLocalServerReachable]_vars

\* C29: the network events come in pairs, network:online directly after
\* network:online:start and network:offline directly after
\* network:offline:start with no other network event between, and the
\* transitions alternate: an online transition is never followed by another
\* online transition, nor an offline one by another offline one.
C29_NetworkEventOrder ==
    [][net' # net =>
          /\ net'.emitted \in {<<>>, <<"network:online:start", "network:online">>,
                                <<"network:offline:start", "network:offline">>}
          /\ net'.emitted # <<>> => net'.emitted[2] # net.last]_vars

C31_UpdateBeforeCreateQueued ==
    [][\A b \in BookIds :
          (/\ shelf.op = "idle" /\ shelf'.op # "idle"
           /\ shelf'.localBook.localId = b
           /\ Has(books, b) /\ books[b].serverId = Null
           /\ Has(queue, books[b].syncQueueId)
           /\ queue[books[b].syncQueueId].type = "CREATE"
           /\ shelf'.op \in {"update", "rejected"})
             => /\ shelf'.op = "update"
                /\ Has(queue', books[b].syncQueueId)]_vars

\* C32: round trip of a shelf entry.  The outbox item enqueue stores for a
\* shelf entry keeps what the shelf driver needs to find it: while it is
\* PENDING it is among the items a pass of syncPendingBooks reads, so that
\* the entry can be sent and end synced with a serverId.
C32_ShelfItemFound ==
    \A b \in DOMAIN books :
       (/\ books[b].syncQueueId # Null
        /\ Has(queue, books[b].syncQueueId)
        /\ queue[books[b].syncQueueId].status = "PENDING")
          => \E i \in 1..Len(pendingBookItems(queue)) :
                pendingBookItems(queue)[i].id = books[b].syncQueueId

\* C33: a WAITING item does not wait forever.  When the operation it waits
\* for has succeeded on the server after a failure and a backoff re-arm (the
\* re-armed operation, enqueued after the WAITING item, is SUCCESS), the item
\* named in originalQueueId is SUCCESS, so that the next pass promotes the
\* WAITING item to PENDING.
C33_WaitingPromotable ==
    \A w \in DOMAIN queue :
       (queue[w].status = "WAITING" /\ queue[w].originalQueueId # Null)
          => LET o == queue[w].originalQueueId
             IN \A c \in DOMAIN queue :
                   (/\ Has(queue, o) /\ c # o
                    /\ queue[c].type = queue[o].type
                    /\ queue[c].localMemoId = queue[o].localMemoId
                    /\ queue[c].data = queue[o].data
                    /\ queue[c].createdAt > queue[w].createdAt
                    /\ queue[c].status = "SUCCESS")
                      => queue[o].status = "SUCCESS"

\* C34: a cycle is not declared complete while work is in flight: isSyncing
\* does not become false and sync:complete is not published while an outbox
\* item is SYNCING, whoever runs the completion check.
C34_NoCompleteInFlight ==
    [][(\/ published'.complete > published.complete
        \/ coord.isSyncing /\ ~coord'.isSyncing)
          => \A i \in DOMAIN queue' : queue'[i].status # "SYNCING"]_vars

\* C35: every sync cycle terminates: once isSyncing is true it eventually
\* becomes false (and sync:complete is published), also when the pass that
\* started the cycle leaves PENDING items it does not handle.
C35_CycleTerminates == coord.isSyncing ~> ~coord.isSyncing

\* C36: the Gate runs at most one deferred operation at a time: in every
\* state at most one operation the Gate has started is still awaited by a
\* drain loop, also when enqueue, sync:complete or clear() come meanwhile.
C36_OneDeferredAtATime ==
    Cardinality({c \in CallIds : /\ calls[c].gated
                                 /\ calls[c].state \in {"server", "local", "reconcile"}})
       <= 1

\* C37: an accepted delete is never silently dropped: the writes of an
\* update take out of the outbox nothing but a PENDING UPDATE item of that
\* memo, never a DELETE item (PENDING or WAITING) and never a SYNCING item.
C37_UpdateKeepsDelete ==
    [][(user.op = "update" /\ user'.op = "idle")
          => \A i \in DOMAIN queue \ DOMAIN queue' :
                queue[i].type = "UPDATE" /\ queue[i].status = "PENDING"]_vars

\* C38: retention does not lose queued work: when the end of a CREATE drops
\* the memo row (memoStartTime more than 7 days back), no outbox item of
\* that memo is PENDING, WAITING or SYNCING, so that every queued UPDATE or
\* DELETE still finds its row.
C38_RetentionKeepsQueuedWork ==
    [][\A p \in FgIds :
          (fg[p].pc = "cascade" /\ fg'[p].pc # "cascade")
             => \A m \in DOMAIN memos \ DOMAIN memos' :
                   \A i \in DOMAIN queue' :
                      queue'[i].localMemoId = m
                         => queue'[i].status \notin {"PENDING", "WAITING", "SYNCING"}]_vars

\* C39: the cache write-through of an online read leaves unsynced local
\* changes alone: a step that stores a server document (no outbox write, no
\* user operation under way) does not change a row whose syncStatus is not
\* synced.
C39_WriteThroughKeepsUnsynced ==
    [][\A b \in DOMAIN books :
          (/\ online /\ queue' = queue
           /\ shelf = IdleShelf /\ shelf' = IdleShelf
           /\ books[b].syncStatus # "synced")
             => Has(books', b) /\ books'[b] = books[b]]_vars

\* C40: coalescing shelf updates loses no field: the PENDING UPDATE item that
\* stands in the outbox for an edited entry carries every field the user has
\* changed in the local entry, so that its replay brings the server record
\* to the local values.
C40_CoalescedUpdateCarriesAll ==
    \A b \in DOMAIN books :
       (/\ books[b].syncStatus = "pending"
        /\ Has(queue, books[b].syncQueueId)
        /\ queue[books[b].syncQueueId].type = "UPDATE"
        /\ queue[books[b].syncQueueId].status = "PENDING")
          => LET data == queue[books[b].syncQueueId].data
             IN /\ books[b].category = EditedValue => data.category = EditedValue
                /\ books[b].rating = EditedValue => data.rating = EditedValue

====
